---- MODULE Spec2Model ----
(***************************************************************************)
(* The block-assembly loop of the client (packages/client/lib/miner/       *)
(* miner.ts) as a state machine.  JavaScript runs one handler at a time    *)
(* and a handler gives up control only at an `await`; every action below   *)
(* is the code that runs between two such points.  A timer may fire at     *)
(* any moment after it was armed (its delay is a lower bound and the       *)
(* awaits of an assembly take arbitrarily long), so the timer callback is  *)
(* an action that is enabled whenever a timer is pending.                  *)
(***************************************************************************)
EXTENDS Integers, Sequences, FiniteSets, Bags, TLC

(* ------------------------------ bounds -------------------------------- *)
\* Slots for assembleBlock invocations in flight.
MaxInFlight == 2
\* STATUS messages a faulty remote adds, and the steps of the clock of the
\* ETH sessions.
MaxInjected == 1
MaxStatusTicks == 3
\* Messages other than STATUS waiting in an inbox, and `message` events of a
\* session.
MaxWire == 1
MaxMessages == 2
\* Requests of the eth protocol: not yet answered, made in all, and the
\* transactions of one message.
MaxOutstanding == 2
MaxRequests == 3
MaxTxs == 2
\* Successful start() calls.
MaxStarts == 2
\* assembleBlock invocations that pass the reentrancy guard.
MaxAssemblies == 2
\* queueNextAssembly calls suspended at once, and timers no longer referenced.
MaxAwaiting == 1
MaxOrphans == 1
\* Blocks the network adds to the chain.
MaxHead == 1
MaxLiveHead == 1
\* The same for the specification of the timers alone, and its clock.
MaxSchedAwaiting == 2
MaxTicks == 3
MaxSigners == 2
\* Math.random() is drawn from {0, 1/RandDenom, ..., (RandDenom-1)/RandDenom}.
RandDenom == 2

(* -------------------------- program constants ------------------------- *)
DEFAULT_PERIOD == 15
MIN_TX_GAS == 21000
JITTER_MS == 500
INTURN == 2
NOTURN == 1
STATUS_TIMEOUT == 5000
ETH62 == 62
ETH63 == 63
ETH64 == 64
ETH65 == 65
ETH66 == 66
\* ETH.MESSAGE_CODES
STATUS == 0
NEW_BLOCK_HASHES == 1
TX == 2
GET_BLOCK_HEADERS == 3
BLOCK_HEADERS == 4
GET_BLOCK_BODIES == 5
BLOCK_BODIES == 6
NEW_BLOCK == 7
NEW_POOLED_TRANSACTION_HASHES == 8
GET_POOLED_TRANSACTIONS == 9
POOLED_TRANSACTIONS == 10
GET_NODE_DATA == 13
NODE_DATA == 14
GET_RECEIPTS == 15
RECEIPTS == 16
\* Fees and prices are counted in units of 10^6 wei (the source's numbers are
\* unbounded; TLC's are 32 bits wide).
InitialBaseFee == 1000

\* `undefined` where a number is expected (no base fee, no difficulty, no
\* london block, no clique period) and the timer that is not pending.
Undefined == 0 - 1
NoTimer == Undefined

VARIABLES
    config,      \* Config: mine, consensus type, clique period, london block
    period,      \* Miner.period, in ms
    running,     \* Miner.running
    assembling,  \* Miner.assembling
    sched,       \* _nextAssemblyTimeoutId, its timer, timers no longer
                 \* referenced, and the queueNextAssembly calls suspended
                 \* at `await cliqueSignerInTurn`
    chainUpdatedListeners,  \* chainUpdated listeners on CHAIN_UPDATED
    setInterruptListeners,  \* setInterrupt listeners on CHAIN_UPDATED
    head,        \* chain.headers.latest
    now,         \* Date.now()
    pool,        \* the transaction pool
    inv,         \* the assembleBlock invocations in flight, by slot
    putBlocks,   \* the blocks handed to the chain, in order
    lastOp,      \* the handler that ran last and how it ended
    eth,         \* the ETH session of each peer
    wire,        \* the messages on their way to each peer's session
    id,          \* the request id counter of the eth protocol (`const id`)
    outstanding, \* the requests sent and not yet answered, in order
    lastMsg      \* the protocol message encoded last and what decoding it gave

vars == <<config, period, running, assembling, sched, chainUpdatedListeners,
          setInterruptListeners, head, now, pool, inv, putBlocks, lastOp,
          eth, wire, id, outstanding, lastMsg>>

Slots == 1..MaxInFlight

Senders == {"B", "A"}

Max(a, b) == IF a >= b THEN a ELSE b

(* --------------------------- chain headers ---------------------------- *)
\* A header, with the account nonces of the state its stateRoot names.
Header(n, ts, gl, gu, fee, nonces) ==
    [nonces |-> nonces, number |-> n, timestamp |-> ts, gasLimit |-> gl,
     gasUsed |-> gu, baseFeePerGas |-> fee]

\* BlockHeader.calcNextBaseFee (EIP-1559): the parent's base fee moved by
\* at most 1/8 towards the parent's use of its gas target (gasLimit / 2).
CalcNextBaseFee(p) ==
    LET fee == p.baseFeePerGas
        target == p.gasLimit \div 2
    IN  IF target = 0 \/ p.gasUsed = target THEN fee
        ELSE IF p.gasUsed > target
             THEN fee + Max(1, ((fee * (p.gasUsed - target)) \div target) \div 8)
             ELSE fee - (((fee * (target - p.gasUsed)) \div target) \div 8)

\* Common.isActivatedEIP(1559): the chain's Common follows the head, so
\* London is active once the head has reached the London block.
IsActivatedEIP1559 ==
    config.london # Undefined /\ head.number >= config.london

(* ------------------------------ timers -------------------------------- *)
\* setTimeout(assembleBlock, delay), its id stored in _nextAssemblyTimeoutId:
\* a timer the id named until now and that is still pending stays pending,
\* with no reference left to it.
SetTimeout(s, delay) ==
    [s EXCEPT !.nextAssemblyTimeoutId = TRUE,
              !.pending = delay,
              !.orphans = IF s.pending # NoTimer THEN @ + 1 ELSE @]

\* if (this._nextAssemblyTimeoutId) clearTimeout(this._nextAssemblyTimeoutId)
ClearTimeout(s) ==
    IF s.nextAssemblyTimeoutId THEN [s EXCEPT !.pending = NoTimer] ELSE s

PendingTimers(s) == (IF s.pending # NoTimer THEN 1 ELSE 0) + s.orphans

\* Lines 57-74, with line 73 (setTimeout) and the await left out.
QueueNextAssemblyClearsOnly(s, timeout) == ClearTimeout(s)

\* queueNextAssembly(timeout) up to its await (proof of authority) or to
\* its end (otherwise, where nothing is awaited).
QueueNextAssembly(s, timeout) ==
    IF config.poa
    THEN [ClearTimeout(s) EXCEPT !.awaiting = @ (+) SetToBag({timeout})]
    ELSE SetTimeout(ClearTimeout(s), timeout)

\* chainUpdated(): the timeout it hands to queueNextAssembly.
ChainUpdatedTimeout(h) ==
    Max(0, h.timestamp * 1000 + period - now)

RECURSIVE ChainUpdatedTimes(_, _, _)
\* The k chainUpdated listeners of one CHAIN_UPDATED event, one after the other.
ChainUpdatedTimes(s, h, k) ==
    IF k = 0 THEN s
    ELSE ChainUpdatedTimes(QueueNextAssembly(s, ChainUpdatedTimeout(h)), h, k - 1)

(* ------------------------- assembleBlock slots ------------------------ *)
ZeroNonces == [s \in Senders |-> 0]

\* The locals of one assembleBlock invocation and its block builder;
\* `stopped` notes that stop() ran while the invocation was in flight.
IdleInv ==
    [nonces |-> ZeroNonces, number |-> 0, gasLimit |-> 0, gasUsed |-> 0,
     baseFeePerGas |-> Undefined,
     pc |-> "idle", interrupt |-> FALSE, stopped |-> FALSE,
     parent |-> Header(0, 0, 0, 0, Undefined, ZeroNonces),
     difficulty |-> Undefined, txs |-> <<>>, index |-> 0,
     blockFull |-> FALSE, body |-> <<>>]

InFlight == {i \in Slots : inv[i].pc # "idle"}

\* setInterrupt, line 118, in every invocation in flight (each registered
\* its own).
SetInterrupt(v) ==
    [i \in Slots |-> IF v[i].pc # "idle" THEN [v[i] EXCEPT !.interrupt = TRUE]
                     ELSE v[i]]

\* setInterrupt, with line 119 absent.
SetInterruptAssemblingKept(a) == a

\* setInterrupt, line 119: a listener that was registered clears the flag,
\* also after its invocation has returned.
SetInterruptAssembling(a) ==
    IF setInterruptListeners > 0 THEN FALSE ELSE a

\* events.emit(CHAIN_UPDATED) with latest header h: every listener runs, in
\* the emitting handler.  v is inv as the emitting handler leaves it.
EmitChainUpdated(h, v) ==
    /\ inv' = SetInterrupt(v)
    /\ assembling' = SetInterruptAssembling(assembling)
    /\ sched' = ChainUpdatedTimes(sched, h, chainUpdatedListeners)

(* ---------------------------- constructor ----------------------------- *)
MinerPeriod(c) ==
    (IF c.period = Undefined THEN DEFAULT_PERIOD ELSE c.period) * 1000

\* The genesis header; it carries the initial base fee when London is
\* active from block 0.
Genesis(gasLimit, london) ==
    Header(0, 0, gasLimit, 0,
           IF london = 0 THEN InitialBaseFee ELSE Undefined, ZeroNonces)

InitMiner(c) ==
    /\ config = c
    /\ period = MinerPeriod(c)
    /\ running = FALSE
    /\ assembling = FALSE
    /\ sched = [nextAssemblyTimeoutId |-> FALSE, pending |-> NoTimer,
                orphans |-> 0, awaiting |-> EmptyBag]
    /\ chainUpdatedListeners = 0
    /\ setInterruptListeners = 0
    /\ now = 0
    /\ inv = [i \in Slots |-> IdleInv]
    /\ putBlocks = <<>>
    /\ lastOp = "constructor"

(* --------------------------- start / stop ----------------------------- *)
\* Line 95, with the guard as it would be without config.mine.
StartRefusedWhenRunning == running

\* Line 95.
StartRefused == ~config.mine \/ running

Start ==
    IF StartRefused
    THEN /\ lastOp' = "start:false"
         /\ UNCHANGED <<id, outstanding, lastMsg, eth, wire, config, period, running, assembling, sched,
                        chainUpdatedListeners, setInterruptListeners, head,
                        now, pool, inv, putBlocks>>
    ELSE /\ running' = TRUE
         /\ chainUpdatedListeners' = chainUpdatedListeners + 1
         /\ sched' = QueueNextAssembly(sched, period)
         /\ lastOp' = "start:true"
         /\ UNCHANGED <<id, outstanding, lastMsg, eth, wire, config, period, assembling, setInterruptListeners,
                        head, now, pool, inv, putBlocks>>

\* Line 250: removeListener is handed this.chainUpdated.bind(this), a new
\* function that was never registered, so no listener is removed.
RemoveChainUpdated(n) == n

\* `stopped` is noted in the invocations that have an interrupt check ahead.
StopSeen(v) ==
    [i \in Slots |-> IF v[i].pc \in {"state", "inturn", "buildBlock", "txs", "loop"}
                     THEN [v[i] EXCEPT !.stopped = TRUE]
                     ELSE v[i]]

Stop ==
    IF ~running
    THEN /\ lastOp' = "stop:false"
         /\ UNCHANGED <<id, outstanding, lastMsg, eth, wire, config, period, running, assembling, sched,
                        chainUpdatedListeners, setInterruptListeners, head,
                        now, pool, inv, putBlocks>>
    ELSE /\ chainUpdatedListeners' = RemoveChainUpdated(chainUpdatedListeners)
         /\ sched' = ClearTimeout(sched)
         /\ running' = FALSE
         /\ inv' = StopSeen(inv)
         /\ lastOp' = "stop:true"
         /\ UNCHANGED <<id, outstanding, lastMsg, eth, wire, config, period, assembling, setInterruptListeners,
                        head, now, pool, putBlocks>>

(* ------------------------- transaction pool --------------------------- *)
\* A transaction; gasPrice is its gas price or, for a type-2 transaction, its
\* maxFeePerGas; `uses` is the gas its execution takes and `valid` whether
\* it executes at all once its nonce is right (one that does not is refused
\* by the VM, for its balance or the like).
Tx(s, n, p, g, u, ok) ==
    [sender |-> s, nonce |-> n, gasPrice |-> p, gasLimit |-> g, uses |-> u,
     valid |-> ok]

\* The transactions that can be in the pool: three of sender A with rising
\* nonce and price, one of B priced between them, and a second of B that
\* pays less than any base fee.
TxUniverse ==
    { Tx("A", 0, 1000, 99999, 99999, TRUE), Tx("A", 1, 2000, 21000, 21000, TRUE),
      Tx("A", 2, 3000, 60000, 30000, FALSE),
      Tx("B", 0, 2500, 60000, 30000, TRUE), Tx("B", 1, 500, 21000, 21000, TRUE) }

RECURSIVE SortByNonce(_)
SortByNonce(txs) ==
    IF txs = {} THEN <<>>
    ELSE LET first == CHOOSE t \in txs : \A o \in txs : t.nonce <= o.nonce
         IN  <<first>> \o SortByNonce(txs \ {first})

RECURSIVE UpToFee(_, _)
\* The front of q before the first transaction that pays less than baseFee.
UpToFee(q, baseFee) ==
    IF q = <<>> \/ Head(q).gasPrice < baseFee THEN <<>>
    ELSE <<Head(q)>> \o UpToFee(Tail(q), baseFee)

\* The executable transactions of sender s: none unless the lowest nonce
\* in the pool is the account's nonce.
SenderQueue(p, s, nonces, baseFee) ==
    LET q == SortByNonce({t \in p : t.sender = s})
    IN  IF q = <<>> \/ Head(q).nonce # nonces[s] THEN <<>>
        ELSE IF baseFee = Undefined THEN q
        ELSE UpToFee(q, baseFee)

RECURSIVE ByPrice(_, _)
\* Repeatedly yield the dearest head of the senders' queues.
ByPrice(queues, yielded) ==
    LET cands == {s \in DOMAIN queues : queues[s] # <<>>}
    IN  IF cands = {} THEN yielded
        ELSE LET best == CHOOSE s \in cands : \A o \in cands :
                             Head(queues[s]).gasPrice >= Head(queues[o]).gasPrice
             IN  ByPrice([queues EXCEPT ![best] = Tail(@)],
                         Append(yielded, Head(queues[best])))

\* txPool.txsByPriceAndNonce(stateManager, baseFee)
TxsByPriceAndNonce(p, nonces, baseFee) ==
    ByPrice([s \in Senders |-> SenderQueue(p, s, nonces, baseFee)], <<>>)

SeqToSet(q) == {q[k] : k \in 1..Len(q)}

(* --------------------------- assembleBlock ---------------------------- *)
\* Line 169.
IsInitialEIP1559Block(n) ==
    config.london # Undefined /\ n = config.london

\* Lines 125 and 176, with the parent's gas limit kept at the London block.
HeaderGasLimitOfParent(v) == v.gasLimit

\* Lines 125 and 176: the gas limit of the header.
HeaderGasLimit(v) ==
    IF IsInitialEIP1559Block(v.number) THEN v.gasLimit * 2 ELSE v.gasLimit

\* Lines 167-179: the base fee of the header.
HeaderBaseFee(v) ==
    IF IsInitialEIP1559Block(v.number) THEN InitialBaseFee
    ELSE IF IsActivatedEIP1559 THEN CalcNextBaseFee(v.parent)
    ELSE Undefined

\* Lines 160-193: the header data handed to buildBlock.
HeaderData(v, difficulty) ==
    [v EXCEPT !.difficulty = difficulty,
              !.baseFeePerGas = HeaderBaseFee(v),
              !.gasLimit = HeaderGasLimit(v),
              !.pc = "buildBlock"]

\* The timer that fires: the one _nextAssemblyTimeoutId names, or one that
\* is no longer referenced.
FireTimer(s, referenced) ==
    IF referenced THEN [s EXCEPT !.pending = NoTimer]
    ELSE [s EXCEPT !.orphans = @ - 1]

FreeSlot == CHOOSE i \in Slots \ InFlight : \A j \in Slots \ InFlight : i <= j

\* Line 110, with the guard absent.
ReentrantNever == FALSE

\* Line 110: the reentrancy guard.
Reentrant == assembling

\* Line 136, with the flag left as line 113 set it.
AbortAssemblingKept == TRUE

\* Line 136: this.assembling = false, on the recently-signed abort.
AbortAssembling == FALSE

\* Lines 123-125: the locals read from the latest header.
Begin(h) ==
    [IdleInv EXCEPT !.pc = "state", !.parent = h, !.number = h.number + 1,
                    !.gasLimit = h.gasLimit, !.nonces = h.nonces]

\* Lines 109-158, from the timer's call up to the await of the state
\* manager; a slot is free for the invocation.
AssembleBlock(referenced, recentlySigned) ==
    /\ IF referenced THEN sched.pending # NoTimer ELSE sched.orphans > 0
    /\ sched' = FireTimer(sched, referenced)
    /\ IF Reentrant
       THEN /\ lastOp' = "assembleBlock:reentrant"
            /\ UNCHANGED <<assembling, setInterruptListeners, inv>>
       ELSE /\ setInterruptListeners' = setInterruptListeners + 1
            /\ IF config.poa /\ recentlySigned
               THEN /\ assembling' = AbortAssembling
                    /\ lastOp' = "assembleBlock:recentlySigned"
                    /\ UNCHANGED inv
               ELSE /\ InFlight # Slots
                    /\ assembling' = TRUE
                    /\ inv' = [inv EXCEPT ![FreeSlot] = Begin(head)]
                    /\ lastOp' = "assembleBlock:begin"
    /\ UNCHANGED <<id, outstanding, lastMsg, eth, wire, config, period, running, chainUpdatedListeners, head, now,
                   pool, putBlocks>>

\* Lines 153-165 and, off proof of authority, on to buildBlock.
SetStateRoot(i) ==
    /\ inv[i].pc = "state"
    /\ inv' = [inv EXCEPT ![i] = IF config.poa THEN [@ EXCEPT !.pc = "inturn"]
                                 ELSE HeaderData(@, Undefined)]
    /\ lastOp' = "step"
    /\ UNCHANGED <<id, outstanding, lastMsg, eth, wire, config, period, running, assembling, sched,
                   chainUpdatedListeners, setInterruptListeners, head, now,
                   pool, putBlocks>>

\* Line 164, with the answer of cliqueSignerInTurn left unread.
DifficultyNoTurn(inTurn) == NOTURN

\* Line 164: difficulty = inTurn ? 2 : 1.
Difficulty(inTurn) == IF inTurn THEN INTURN ELSE NOTURN

\* Lines 163-193: the difficulty from cliqueSignerInTurn.
CliqueSignerInTurn(i, inTurn) ==
    /\ inv[i].pc = "inturn"
    /\ inv' = [inv EXCEPT ![i] = HeaderData(@, Difficulty(inTurn))]
    /\ lastOp' = "step"
    /\ UNCHANGED <<id, outstanding, lastMsg, eth, wire, config, period, running, assembling, sched,
                   chainUpdatedListeners, setInterruptListeners, head, now,
                   pool, putBlocks>>

\* The loop condition of line 206 and what follows the loop (lines 230-232).
LoopOrExit(v) ==
    IF v.index < Len(v.txs) /\ ~v.blockFull /\ ~v.interrupt
    THEN [v EXCEPT !.pc = "loop"]
    ELSE IF v.interrupt THEN IdleInv
    ELSE [v EXCEPT !.pc = "build"]

ExitOp(v) ==
    IF v.pc = "idle" THEN "assembleBlock:interrupted" ELSE "step"

\* Line 181 returns the builder; line 195 asks the pool.
BuildBlock(i) ==
    /\ inv[i].pc = "buildBlock"
    /\ inv' = [inv EXCEPT ![i].pc = "txs"]
    /\ lastOp' = "step"
    /\ UNCHANGED <<id, outstanding, lastMsg, eth, wire, config, period, running, assembling, sched,
                   chainUpdatedListeners, setInterruptListeners, head, now,
                   pool, putBlocks>>

\* Lines 195-198, with the pool listed by price alone.
EligibleTxsByPriceOnly(v) ==
    ByPrice([t \in pool |-> <<t>>], <<>>)

\* Lines 195-198, with no base fee handed to the pool.
EligibleTxsNoBaseFee(v) ==
    TxsByPriceAndNonce(pool, v.nonces, Undefined)

\* Lines 195-198: the pool is asked for the executable transactions, with
\* the state of the VM copy and the base fee of the block.
EligibleTxs(v) ==
    TxsByPriceAndNonce(pool, v.nonces, v.baseFeePerGas)

\* Lines 195-206: the eligible list, and the first turn of the loop.
Eligible(i) ==
    /\ inv[i].pc = "txs"
    /\ LET v == LoopOrExit([inv[i] EXCEPT
                   !.txs = EligibleTxs(inv[i]),
                   !.index = 0, !.blockFull = FALSE])
       IN  /\ inv' = [inv EXCEPT ![i] = v]
           /\ lastOp' = ExitOp(v)
    /\ UNCHANGED <<id, outstanding, lastMsg, eth, wire, config, period, running, assembling, sched,
                   chainUpdatedListeners, setInterruptListeners, head, now,
                   pool, putBlocks>>

\* BlockBuilder.addTransaction, with no gas check.
GasLimitExceededNever(v, tx) == FALSE

\* BlockBuilder.addTransaction: the gas check that raises 'tx has a higher
\* gas limit than the remaining gas in the block'.
GasLimitExceeded(v, tx) == tx.gasLimit > v.gasLimit - v.gasUsed

\* BlockBuilder.addTransaction past the gas check: the VM runs the
\* transaction, or refuses it.
Executes(v, tx) ==
    /\ tx.valid
    /\ tx.nonce = v.nonces[tx.sender]
    /\ v.baseFeePerGas # Undefined => tx.gasPrice >= v.baseFeePerGas

\* Lines 220-226, with the loop given up on the error.
CatchOtherEndsLoop(v) == [v EXCEPT !.blockFull = TRUE]

\* Lines 220-226: any other error of addTransaction is logged and the
\* transaction skipped.
CatchOther(v) == v

\* Line 211, with the comparison not strict.
ConsideredFullAtLimit(v) == v.gasUsed >= v.gasLimit - MIN_TX_GAS

\* Line 211: the block counts as full.
ConsideredFull(v) == v.gasUsed > v.gasLimit - MIN_TX_GAS

\* Lines 207-229, with index++ left out when the transaction is skipped.
LoopTurnRetrying(v) ==
    LET tx == v.txs[v.index + 1]
    IN  IF GasLimitExceeded(v, tx)
        THEN LoopOrExit([v EXCEPT !.blockFull = ConsideredFull(v),
                                  !.index = @ + 1])
        ELSE IF Executes(v, tx)
        THEN LoopOrExit([v EXCEPT !.gasUsed = @ + tx.uses,
                                  !.body = Append(@, tx),
                                  !.nonces[tx.sender] = @ + 1,
                                  !.index = @ + 1])
        ELSE LoopOrExit(CatchOther(v))

\* Lines 207-229: one turn of the loop, from the result of addTransaction
\* to the next await.
LoopTurn(v) ==
    LET tx == v.txs[v.index + 1]
        w == IF GasLimitExceeded(v, tx)
             THEN [v EXCEPT !.blockFull = ConsideredFull(v)]
             ELSE IF Executes(v, tx)
             THEN [v EXCEPT !.gasUsed = @ + tx.uses,
                            !.body = Append(@, tx),
                            !.nonces[tx.sender] = @ + 1]
             ELSE CatchOther(v)
    IN  LoopOrExit([w EXCEPT !.index = @ + 1])

AddTransaction(i) ==
    /\ inv[i].pc = "loop"
    /\ LET v == LoopTurn(inv[i])
       IN  /\ inv' = [inv EXCEPT ![i] = v]
           /\ lastOp' = ExitOp(v)
    /\ UNCHANGED <<id, outstanding, lastMsg, eth, wire, config, period, running, assembling, sched,
                   chainUpdatedListeners, setInterruptListeners, head, now,
                   pool, putBlocks>>

\* Lines 232-237: the block is sealed; the flag is cleared; the block is
\* handed to the chain unless the assembly was interrupted.
\* Lines 232-237, with the check of line 235 left out.
BuildIgnoringInterrupt(i) ==
    /\ inv[i].pc = "build"
    /\ assembling' = FALSE
    /\ inv' = [inv EXCEPT ![i].pc = "submit"]
    /\ lastOp' = "step"
    /\ UNCHANGED <<id, outstanding, lastMsg, eth, wire, config, period,
                   running, sched, chainUpdatedListeners,
                   setInterruptListeners, head, now, pool, putBlocks>>

Build(i) ==
    /\ inv[i].pc = "build"
    /\ assembling' = FALSE
    /\ IF inv[i].interrupt
       THEN /\ inv' = [inv EXCEPT ![i] = IdleInv]
            /\ lastOp' = "assembleBlock:interrupted"
       ELSE /\ inv' = [inv EXCEPT ![i].pc = "submit"]
            /\ lastOp' = "step"
    /\ UNCHANGED <<id, outstanding, lastMsg, eth, wire, config, period, running, sched, chainUpdatedListeners,
                   setInterruptListeners, head, now, pool, putBlocks>>

BlockOf(v) ==
    [number |-> v.number, parent |-> v.parent, gasLimit |-> v.gasLimit,
     baseFeePerGas |-> v.baseFeePerGas, difficulty |-> v.difficulty,
     gasUsed |-> v.gasUsed, transactions |-> v.body, stopped |-> v.stopped]

\* synchronizer.handleNewBlock(block): the block is put on the chain and
\* becomes the head when it extends the head; CHAIN_UPDATED is emitted.
HandleNewBlock(i, ts) ==
    /\ inv[i].pc = "submit"
    /\ LET v == inv[i]
           h == IF v.number = head.number + 1
                THEN Header(v.number, ts, v.gasLimit, v.gasUsed,
                            v.baseFeePerGas, v.nonces)
                ELSE head
       IN  /\ putBlocks' = Append(putBlocks, BlockOf(v))
           /\ head' = h
           /\ EmitChainUpdated(h, [inv EXCEPT ![i].pc = "submitted"])
    /\ lastOp' = "handleNewBlock"
    /\ UNCHANGED <<id, outstanding, lastMsg, eth, wire, config, period, running, chainUpdatedListeners,
                   setInterruptListeners, now, pool>>

\* Line 237 when handleNewBlock rejects: nothing catches it in assembleBlock,
\* whose promise, which the timer dropped, rejects; lines 239-240 do not run.
HandleNewBlockFails(i) ==
    /\ inv[i].pc = "submit"
    /\ inv' = [inv EXCEPT ![i] = IdleInv]
    /\ lastOp' = "assembleBlock:unhandledRejection"
    /\ UNCHANGED <<id, outstanding, lastMsg, eth, wire, config, period, running, assembling, sched,
                   chainUpdatedListeners, setInterruptListeners, head, now,
                   pool, putBlocks>>

\* The awaits of assembleBlock outside a try: the state manager (lines 153
\* and 157), cliqueSignerInTurn (163), buildBlock (181), txsByPriceAndNonce
\* (195) and build() (232).
Awaits == {"state", "inturn", "buildBlock", "txs", "build"}

\* One of those awaits rejects: nothing catches it in assembleBlock, which
\* ends there, with the flag as line 113 or a setInterrupt left it.
AssemblyRejects(i) ==
    /\ inv[i].pc \in Awaits
    /\ inv' = [inv EXCEPT ![i] = IdleInv]
    /\ lastOp' = "assembleBlock:unhandledRejection"
    /\ UNCHANGED <<id, outstanding, lastMsg, eth, wire, config, period,
                   running, assembling, sched, chainUpdatedListeners,
                   setInterruptListeners, head, now, pool, putBlocks>>

\* Lines 239-241: the pool drops the block's transactions; the listener is
\* not removed (removeListener is handed a new bound function).
RemoveNewBlockTxs(i) ==
    /\ inv[i].pc = "submitted"
    /\ pool' = pool \ SeqToSet(inv[i].body)
    /\ inv' = [inv EXCEPT ![i] = IdleInv]
    /\ lastOp' = "assembleBlock:done"
    /\ UNCHANGED <<id, outstanding, lastMsg, eth, wire, config, period, running, assembling, sched,
                   chainUpdatedListeners, setInterruptListeners, head, now,
                   putBlocks>>

(* ------------------------ the world around it ------------------------- *)
\* Line 70, with the jitter added whether or not the signer is in turn.
JitterAlways(inTurn, signerCount, r) ==
    (r * signerCount * JITTER_MS) \div RandDenom

\* Line 70: Math.random() * signerCount * 500, with Math.random() = r / RandDenom.
Jitter(inTurn, signerCount, r) ==
    IF inTurn THEN 0 ELSE (r * signerCount * JITTER_MS) \div RandDenom

\* queueNextAssembly resumes from `await cliqueSignerInTurn` (lines 67-73).
QueueResume(timeout, inTurn, signerCount, r) ==
    /\ BagIn(timeout, sched.awaiting)
    /\ sched' = SetTimeout([sched EXCEPT !.awaiting = @ (-) SetToBag({timeout})],
                           timeout + Jitter(inTurn, signerCount, r))
    /\ lastOp' = IF inTurn THEN "queueNextAssembly:inTurn"
                 ELSE "queueNextAssembly:outOfTurn"
    /\ UNCHANGED <<id, outstanding, lastMsg, eth, wire, config, period, running, assembling, chainUpdatedListeners,
                   setInterruptListeners, head, now, pool, inv, putBlocks>>

\* A block of another signer: the header the rules of lines 167-179 give it.
ExternalHeader(h, ts) ==
    LET first == IsInitialEIP1559Block(h.number + 1)
    IN  Header(h.number + 1, ts,
               IF first THEN h.gasLimit * 2 ELSE h.gasLimit, 0,
               IF first THEN InitialBaseFee
               ELSE IF IsActivatedEIP1559 THEN CalcNextBaseFee(h)
               ELSE Undefined,
               h.nonces)

\* The chain is updated from the network: CHAIN_UPDATED is emitted, with a
\* new head or with the head as it was.
ChainUpdate(advance, ts) ==
    /\ LET h == IF advance THEN ExternalHeader(head, ts) ELSE head
       IN  /\ head' = h
           /\ EmitChainUpdated(h, inv)
    /\ lastOp' = "chainUpdate"
    /\ UNCHANGED <<id, outstanding, lastMsg, eth, wire, config, period, running, chainUpdatedListeners,
                   setInterruptListeners, now, pool, putBlocks>>

\* Time passes.
Tick ==
    /\ now < MaxTicks * 500
    /\ now' = now + 500
    /\ lastOp' = "step"
    /\ UNCHANGED <<id, outstanding, lastMsg, eth, wire, config, period, running, assembling, sched,
                   chainUpdatedListeners, setInterruptListeners, head, pool,
                   inv, putBlocks>>

(* ------------------------- devp2p ETH sessions ------------------------ *)
\* The two ends of one RLPx connection; each has an ETH session whose
\* remote is the other.
Peers == {"a", "b"}

Remote(p) == IF p = "a" THEN "b" ELSE "a"

\* The miner's specifications have no sessions.
NoSessions == <<>>

NoWire == <<>>

\* The hardforks of the chain's Common, by index, and their blocks.
Hardforks == <<"chainstart", "berlin", "london">>

HardforkBlock(h) == <<0, 2, 3>>[h]

\* Common.forkHash: a checksum of the genesis hash and the fork blocks up
\* to the hardfork, here a number that differs whenever either differs.
ForkHash(genesisHash, h) == genesisHash * 100 + h

\* Common.nextHardforkBlockBN: the block of the next hardfork, or null.
NextHardforkBlock(h) ==
    IF h < Len(Hardforks) THEN HardforkBlock(h + 1) ELSE Undefined

\* Common.hardforkForForkHash: the hardfork with this fork hash, or null.
HardforkForForkHash(genesisHash, forkHash) ==
    IF \E h \in 1..Len(Hardforks) : ForkHash(genesisHash, h) = forkHash
    THEN CHOOSE h \in 1..Len(Hardforks) : ForkHash(genesisHash, h) = forkHash
    ELSE Undefined

\* Common.hardforkGteHardfork
HardforkGteHardfork(h1, h2) == h1 >= h2

\* A STATUS message: the list of lines 323-345; forkId is <<>> when the
\* list has five elements.
StatusMsg(version, networkId, td, bestHash, genesisHash, forkId) ==
    [genesisHash |-> genesisHash, version |-> version,
     networkId |-> networkId, td |-> td, bestHash |-> bestHash,
     forkId |-> forkId]

\* null, for _status and _peerStatus.
NoStatus ==
    StatusMsg(Undefined, Undefined, Undefined, Undefined, Undefined, <<>>)

\* Lines 116-142: the session of a peer whose Common is on hardfork h of the
\* chain (networkId, genesisHash); td and bestHash are what its chain will
\* hand to sendStatus.
NewETH(version, networkId, genesisHash, h, td, bestHash) ==
    [version |-> version, networkId |-> networkId,
     genesisHash |-> genesisHash, td |-> td, bestHash |-> bestHash,
     status |-> NoStatus, peerStatus |-> NoStatus,
     timer |-> "armed", deadline |-> now + STATUS_TIMEOUT,
     hardfork |-> IF version >= ETH64 THEN h ELSE 1,
     latestBlock |-> IF version >= ETH64 THEN HardforkBlock(h) ELSE 0,
     forkHash |-> IF version >= ETH64 THEN ForkHash(genesisHash, h)
                  ELSE Undefined,
     nextForkBlock |-> IF version >= ETH64 /\ NextHardforkBlock(h) # Undefined
                       THEN NextHardforkBlock(h) ELSE 0,
     sent |-> 0, statusEvents |-> <<>>, messageEvents |-> 0,
     errors |-> {}, disconnects |-> {}, hello |-> Undefined]

\* this._peer._hello: the HELLO of the remote has declared protocolVersion.
Hello(s, protocolVersion) == [s EXCEPT !.hello = protocolVersion]

\* The test of lines 358 and 407, passed by devp2p version 4 too.
SnappyFrom4(s) ==
    s.hello # Undefined /\ s.hello # 0 /\ s.hello >= 4

\* Line 358: _hello?.protocolVersion && _hello?.protocolVersion >= 5, in
\* sendStatus.
SendStatusSnappy(s) ==
    s.hello # Undefined /\ s.hello # 0 /\ s.hello >= 5

\* Line 407: the same test in sendMessage.
SendMessageSnappy(s) ==
    s.hello # Undefined /\ s.hello # 0 /\ s.hello >= 5

\* The peer of the session was disconnected (the session is destroyed).
Closed(s) == s.disconnects # {}

\* Both STATUS are there and the handshake went through.
Established(s) == s.statusEvents # <<>>

\* Lines 225-240: _validateForkId without the check of lines 215-224.
ValidateForkIdFromUnknown(s, forkId) ==
    LET peerFork == HardforkForForkHash(s.genesisHash, forkId[1])
    IN  IF peerFork = Undefined THEN "Unknown fork hash"
        ELSE IF /\ ~HardforkGteHardfork(peerFork, s.hardfork)
                /\ \/ NextHardforkBlock(peerFork) = Undefined
                   \/ NextHardforkBlock(peerFork) # forkId[2]
        THEN "Outdated fork status, remote needs software update"
        ELSE "ok"

\* Lines 209-240: the error _validateForkId throws, or "ok".
ValidateForkId(s, forkId) ==
    LET peerForkHash == forkId[1]
        peerNextFork == forkId[2]
        peerFork == HardforkForForkHash(s.genesisHash, peerForkHash)
    IN  IF /\ s.forkHash = peerForkHash
           /\ peerNextFork # 0
           /\ s.latestBlock >= peerNextFork
        THEN "Remote is advertising a future fork that passed locally"
        ELSE IF peerFork = Undefined THEN "Unknown fork hash"
        ELSE IF /\ ~HardforkGteHardfork(peerFork, s.hardfork)
                /\ \/ NextHardforkBlock(peerFork) = Undefined
                   \/ NextHardforkBlock(peerFork) # peerNextFork
        THEN "Outdated fork status, remote needs software update"
        ELSE "ok"

\* Lines 246-285, with the network id not compared.
StatusErrorNoNetworkId(s) ==
    IF s.status.version # s.peerStatus.version THEN "Protocol version mismatch"
    ELSE IF s.status.genesisHash # s.peerStatus.genesisHash
    THEN "Genesis block mismatch"
    ELSE "ok"

\* Lines 246-285: the error the checks of _handleStatus throw, or "ok".
\* Reading the length of a fork id that is not there is a TypeError.
StatusError(s) ==
    IF s.status.version # s.peerStatus.version THEN "Protocol version mismatch"
    ELSE IF s.status.networkId # s.peerStatus.networkId
    THEN "NetworkId mismatch"
    ELSE IF s.status.genesisHash # s.peerStatus.genesisHash
    THEN "Genesis block mismatch"
    ELSE IF s.version < ETH64 THEN "ok"
    ELSE IF s.peerStatus.forkId = <<>> THEN "TypeError"
    ELSE IF Len(s.peerStatus.forkId) # 2 THEN "Incorrect forkId msg format"
    ELSE ValidateForkId(s, s.peerStatus.forkId)

\* Line 243: _handleStatus returns until both STATUS are there.
HandshakeOpen(s) == s.status = NoStatus \/ s.peerStatus = NoStatus

\* Line 244: clearTimeout(this._statusTimeoutId).
ClearStatusTimeout(s) ==
    [s EXCEPT !.timer = IF @ = "armed" THEN "cleared" ELSE @]

\* Lines 268-287, with the object filled from this._status.
StatusEventLocal(s) ==
    [networkId |-> s.status.networkId, td |-> s.status.td,
     bestHash |-> s.status.bestHash,
     genesisHash |-> s.status.genesisHash,
     forkId |-> IF s.version >= ETH64 THEN s.status.forkId ELSE <<>>]

\* Lines 268-287: the object of the `status` event.
StatusEvent(s) ==
    [networkId |-> s.peerStatus.networkId, td |-> s.peerStatus.td,
     bestHash |-> s.peerStatus.bestHash,
     genesisHash |-> s.peerStatus.genesisHash,
     forkId |-> IF s.version >= ETH64 THEN s.peerStatus.forkId ELSE <<>>]

\* Lines 242-291: the error _handleStatus throws, or "ok".
HandleStatusError(s) ==
    IF HandshakeOpen(s) THEN "ok" ELSE StatusError(s)

\* Lines 242-291: the session after _handleStatus.
HandleStatus(s) ==
    IF HandshakeOpen(s) THEN s
    ELSE IF StatusError(s) # "ok"
    THEN [ClearStatusTimeout(s) EXCEPT !.errors = @ \cup {StatusError(s)}]
    ELSE [ClearStatusTimeout(s) EXCEPT
              !.statusEvents = Append(@, StatusEvent(s))]

\* Peer, around _handleMessage: an error of the protocol handler disconnects
\* the peer.
PeerCatch(s) ==
    [s EXCEPT !.disconnects = @ \cup {"SUBPROTOCOL_ERROR"}]

\* Lines 323-345: the STATUS list sendStatus builds.
LocalStatus(s) ==
    StatusMsg(s.version, s.networkId, s.td, s.bestHash, s.genesisHash,
              IF s.version >= ETH64 THEN <<s.forkHash, s.nextForkBlock>>
              ELSE <<>>)

\* Lines 331-337: the latest block handed to sendStatus is refused.
LatestBlockRefused(s, latestBlock) ==
    /\ s.version >= ETH64
    /\ latestBlock # Undefined /\ latestBlock # 0
    /\ latestBlock < s.latestBlock

\* Lines 323-345: the session when sendStatus has stored this._status and
\* this._latestBlock and is about to send.
StatusStored(s, latestBlock) ==
    [s EXCEPT !.latestBlock =
                  IF s.version >= ETH64 /\ latestBlock # Undefined
                     /\ latestBlock # 0
                  THEN latestBlock ELSE @,
              !.status = LocalStatus(s),
              !.sent = @ + 1]

\* Lines 321-364: the session after sendStatus(status).  What it throws
\* goes to its caller, which may disconnect the peer or not.
AfterSendStatus(s, latestBlock, callerDisconnects) ==
    LET caught(t) == IF callerDisconnects THEN PeerCatch(t) ELSE t
    IN  IF s.status # NoStatus THEN s
        ELSE IF LatestBlockRefused(s, latestBlock)
        THEN caught(
                 [s EXCEPT !.status = [LocalStatus(s) EXCEPT !.forkId = <<>>],
                           !.errors = @ \cup {"latest block provided is not matching the HF setting of the Common instance (Rlpx)"}])
        ELSE IF HandleStatusError(StatusStored(s, latestBlock)) = "ok"
        THEN HandleStatus(StatusStored(s, latestBlock))
        ELSE caught(HandleStatus(StatusStored(s, latestBlock)))

\* Lines 321-364: sendStatus(status), with status.latestBlock or without
\* (Undefined).
SendStatus(p, latestBlock, callerDisconnects) ==
    LET s == eth[p]
    IN  /\ ~Closed(s)
        /\ eth' = [eth EXCEPT ![p] =
                       AfterSendStatus(s, latestBlock, callerDisconnects)]
        /\ IF s.status # NoStatus
           THEN /\ lastOp' = "sendStatus:return"
                /\ UNCHANGED wire
           ELSE IF LatestBlockRefused(s, latestBlock)
           THEN /\ lastOp' = "sendStatus:error"
                /\ UNCHANGED wire
           ELSE /\ wire' = [wire EXCEPT !.inbox[Remote(p)] =
                               Append(@, [code |-> STATUS,
                                          payload |-> LocalStatus(s),
                                          snappy |-> SendStatusSnappy(s)])]
                /\ lastOp' =
                       IF HandleStatusError(StatusStored(s, latestBlock)) = "ok"
                       THEN "sendStatus:sent" ELSE "sendStatus:error"
        /\ UNCHANGED <<id, outstanding, lastMsg, config, period, running, assembling, sched,
                       chainUpdatedListeners, setInterruptListeners, head,
                       now, pool, inv, putBlocks>>

\* Lines 161-167, with every STATUS taken.
UncontrolledNever(s) == FALSE

\* Lines 161-167: a STATUS was received before.
Uncontrolled(s) == s.peerStatus # NoStatus

\* Lines 160-173, with line 171 (_handleStatus) left out.
HandleMessageStatusNoHandshake(s, payload) ==
    IF Uncontrolled(s)
    THEN PeerCatch([s EXCEPT !.errors = @ \cup {"Uncontrolled status message"}])
    ELSE [s EXCEPT !.peerStatus = payload, !.messageEvents = @ + 1]

\* Lines 150-203 for a STATUS: the session after _handleMessage and the
\* Peer's catch.
HandleMessageStatus(s, payload) ==
    IF Uncontrolled(s)
    THEN PeerCatch([s EXCEPT !.errors = @ \cup {"Uncontrolled status message"}])
    ELSE LET s1 == [s EXCEPT !.peerStatus = payload]
         IN  IF HandleStatusError(s1) = "ok"
             THEN [HandleStatus(s1) EXCEPT !.messageEvents = @ + 1]
             ELSE PeerCatch(HandleStatus(s1))

\* The codes of the messages of eth/62, of those eth/63 adds and of those
\* eth/65 adds.
Eth62Codes ==
    {NEW_BLOCK_HASHES, TX, GET_BLOCK_HEADERS, BLOCK_HEADERS, GET_BLOCK_BODIES,
     BLOCK_BODIES, NEW_BLOCK}

Eth63Codes == {GET_NODE_DATA, NODE_DATA, GET_RECEIPTS, RECEIPTS}

Eth65Codes ==
    {NEW_POOLED_TRANSACTION_HASHES, GET_POOLED_TRANSACTIONS,
     POOLED_TRANSACTIONS}

\* Lines 175-200, with the messages of eth/63 taken by every version.
DispatchedFrom62(version, code) ==
    \/ code \in Eth62Codes \cup Eth63Codes /\ version >= ETH62
    \/ code \in Eth65Codes /\ version >= ETH65

\* Lines 175-200: the switch of _handleMessage breaks for this code (the
\* message goes on to line 202) instead of returning.
Dispatched(version, code) ==
    \/ code \in Eth62Codes /\ version >= ETH62
    \/ code \in Eth63Codes /\ version >= ETH63
    \/ code \in Eth65Codes /\ version >= ETH65

\* Lines 150-203 for another message than STATUS: dropped (return), or
\* emitted as a `message` event (line 202).
HandleMessageOther(s, code) ==
    IF Dispatched(s.version, code)
    THEN [s EXCEPT !.messageEvents = @ + 1]
    ELSE s

\* The next message on the wire reaches _handleMessage of p's session.
HandleMessage(p) ==
    /\ ~Closed(eth[p])
    /\ wire.inbox[p] # <<>>
    /\ wire' = [wire EXCEPT !.inbox[p] = Tail(@)]
    /\ eth' = [eth EXCEPT ![p] =
                   IF Head(wire.inbox[p]).code = STATUS
                   THEN HandleMessageStatus(@, Head(wire.inbox[p]).payload)
                   ELSE HandleMessageOther(@, Head(wire.inbox[p]).code)]
    /\ lastOp' = IF eth'[p].errors # eth[p].errors THEN "handleMessage:error"
                 ELSE IF Head(wire.inbox[p]).code = STATUS
                 THEN "handleMessage:status"
                 ELSE IF eth'[p] = eth[p] THEN "handleMessage:dropped"
                 ELSE "handleMessage:message"
    /\ UNCHANGED <<id, outstanding, lastMsg, config, period, running, assembling, sched,
                   chainUpdatedListeners, setInterruptListeners, head,
                   now, pool, inv, putBlocks>>

\* Lines 125-127: the status timeout of a session fires at its deadline.
StatusTimeout(s, time) ==
    IF s.timer = "armed" /\ time >= s.deadline
    THEN [s EXCEPT !.timer = "fired", !.disconnects = @ \cup {"TIMEOUT"}]
    ELSE s

\* Time passes, and the timeouts that are due fire.
StatusTick ==
    /\ now < MaxStatusTicks * (STATUS_TIMEOUT \div 2)
    /\ now' = now + STATUS_TIMEOUT \div 2
    /\ eth' = [p \in Peers |-> StatusTimeout(eth[p], now')]
    /\ lastOp' = "statusTick"
    /\ UNCHANGED <<id, outstanding, lastMsg, config, period, running, assembling, sched,
                   chainUpdatedListeners, setInterruptListeners, head,
                   pool, inv, putBlocks, wire>>

\* Lines 373-402, with the messages of eth/65 sent by every version.
SendMessageErrorFrom62(version, code) ==
    IF code = STATUS THEN "Please send status message through .sendStatus"
    ELSE IF code \in Eth62Codes \cup Eth65Codes
    THEN IF version >= ETH62 THEN "ok" ELSE "Code not allowed with version"
    ELSE IF code \in Eth63Codes
    THEN IF version >= ETH63 THEN "ok" ELSE "Code not allowed with version"
    ELSE "Unknown code"

\* Lines 373-402: the error the switch of sendMessage throws, or "ok".
SendMessageError(version, code) ==
    IF code = STATUS THEN "Please send status message through .sendStatus"
    ELSE IF code \in Eth62Codes
    THEN IF version >= ETH62 THEN "ok" ELSE "Code not allowed with version"
    ELSE IF code \in Eth63Codes
    THEN IF version >= ETH63 THEN "ok" ELSE "Code not allowed with version"
    ELSE IF code \in Eth65Codes
    THEN IF version >= ETH65 THEN "ok" ELSE "Code not allowed with version"
    ELSE "Unknown code"

\* A message that is not a STATUS, its payload left out, not compressed.
Message(code) == [code |-> code, payload |-> NoStatus, snappy |-> FALSE]

\* Lines 366-412: sendMessage(code, payload).  What it throws goes to its
\* caller.
SendMessage(p, code) ==
    /\ ~Closed(eth[p])
    /\ IF SendMessageError(eth[p].version, code) = "ok"
       THEN /\ wire' = [wire EXCEPT !.inbox[Remote(p)] =
                           Append(@, [Message(code) EXCEPT
                                         !.snappy = SendMessageSnappy(eth[p])])]
            /\ lastOp' = "sendMessage:sent"
       ELSE /\ wire' = wire
            /\ lastOp' = "sendMessage:error"
    /\ UNCHANGED <<id, outstanding, lastMsg, config, period, running, assembling, sched,
                   chainUpdatedListeners, setInterruptListeners, head,
                   now, pool, inv, putBlocks, eth>>

\* A remote that does not keep to the protocol sends a message of any
\* code.
InjectMessage(p, code) ==
    /\ wire.injected < MaxInjected
    /\ wire' = [wire EXCEPT !.injected = @ + 1,
                            !.inbox[p] = Append(@, Message(code))]
    /\ lastOp' = "inject"
    /\ UNCHANGED <<id, outstanding, lastMsg, config, period, running, assembling, sched,
                   chainUpdatedListeners, setInterruptListeners, head,
                   now, pool, inv, putBlocks, eth>>

\* A STATUS of a chain that is not the session's.
ForeignStatus == StatusMsg(63, 1, 30, 31, 2, <<>>)

\* A remote that does not keep to the protocol sends a further STATUS: its
\* own once more, or another.
Inject(p, payload) ==
    /\ wire.injected < MaxInjected
    /\ wire' = [wire EXCEPT !.injected = @ + 1,
                            !.inbox[p] = Append(@, [code |-> STATUS,
                                                    payload |-> payload,
                                                    snappy |-> FALSE])]
    /\ lastOp' = "inject"
    /\ UNCHANGED <<id, outstanding, lastMsg, config, period, running, assembling, sched,
                   chainUpdatedListeners, setInterruptListeners, head,
                   now, pool, inv, putBlocks, eth>>

(* ----------------------- eth protocol messages ----------------------- *)
\* A BN is the sequence of its 16-bit words, the least significant first,
\* with no zero word at the top; a Buffer is the sequence of its bytes.
Word == 256 * 256

BNZero == <<>>

\* The words of 2^64 - 2, 2^64 - 1, 2^53 - 1 and 2^53.
BNMax64Less1 == <<Word - 2, Word - 1, Word - 1, Word - 1>>

BNMax64 == <<Word - 1, Word - 1, Word - 1, Word - 1>>

BNMaxSafe == <<Word - 1, Word - 1, Word - 1, 31>>

BNMaxSafePlus1 == <<0, 0, 0, 32>>

\* BN.iaddn(1)
RECURSIVE Iaddn1(_)
Iaddn1(bn) ==
    IF bn = <<>> THEN <<1>>
    ELSE IF Head(bn) + 1 < Word THEN <<Head(bn) + 1>> \o Tail(bn)
    ELSE <<0>> \o Iaddn1(Tail(bn))

RECURSIVE StripZeros(_)
StripZeros(bytes) ==
    IF bytes # <<>> /\ Head(bytes) = 0 THEN StripZeros(Tail(bytes)) ELSE bytes

RECURSIVE WordsToBytes(_)
WordsToBytes(bn) ==
    IF bn = <<>> THEN <<>>
    ELSE WordsToBytes(Tail(bn)) \o <<Head(bn) \div 256, Head(bn) % 256>>

\* BN.toArrayLike(Buffer): the bytes, the most significant first, one zero
\* byte for zero.
ToArrayLike(bn) ==
    IF StripZeros(WordsToBytes(bn)) = <<>> THEN <<0>>
    ELSE StripZeros(WordsToBytes(bn))

RECURSIVE BytesToWords(_)
BytesToWords(bytes) ==
    IF bytes = <<>> THEN <<>>
    ELSE IF Len(bytes) = 1 THEN <<bytes[1]>>
    ELSE <<bytes[Len(bytes) - 1] * 256 + bytes[Len(bytes)]>>
             \o BytesToWords(SubSeq(bytes, 1, Len(bytes) - 2))

\* new BN(buffer)
NewBN(bytes) == BytesToWords(StripZeros(bytes))

\* BN.toNumber() succeeds: the value has 53 bits at most.
SafeNumber(bn) == Len(bn) <= 3 \/ (Len(bn) = 4 /\ bn[4] < 32)

\* The elements of a message as handed to RLP: a Buffer, a number or a list.
Buf(bytes) == [kind |-> "bytes", val |-> bytes]

Num(bn) == [kind |-> "number", val |-> bn]

Lst(items) == [kind |-> "list", val |-> items]

\* What an encode or decode that throws leaves.
Throws == [kind |-> "throws", val |-> <<>>]

\* A transaction: its type (0 for legacy) and its fields, a byte each.
TypedTx(type, fields) == [type |-> type, fields |-> fields]

InvalidTx == TypedTx(Undefined, <<>>)

LegacyFieldCount == Len(<<"nonce", "gasPrice", "gasLimit", "to", "value",
                          "data", "v", "r", "s">>)

\* tx.raw() of a legacy transaction: the list of its fields.
Raw(tx) == Lst([i \in 1..Len(tx.fields) |-> Buf(<<tx.fields[i]>>)])

\* tx.serialize() of a typed transaction: the type byte and the payload.
Serialize(tx) == Buf(<<tx.type>> \o tx.fields)

\* Lines 329-337 and 434-442: serializedTxs.
SerializeTxs(txs) ==
    [i \in 1..Len(txs) |->
        IF txs[i].type = 0 THEN Raw(txs[i]) ELSE Serialize(txs[i])]

\* TransactionFactory.fromBlockBodyData: a list is read as the fields of a
\* legacy transaction, a Buffer by its first byte as a typed transaction.
FromBlockBodyData(data) ==
    IF data.kind = "list"
    THEN IF /\ Len(data.val) = LegacyFieldCount
            /\ \A i \in 1..Len(data.val) :
                   data.val[i].kind = "bytes" /\ Len(data.val[i].val) = 1
         THEN TypedTx(0, [i \in 1..Len(data.val) |-> data.val[i].val[1]])
         ELSE InvalidTx
    ELSE IF data.kind = "bytes"
    THEN IF Len(data.val) > 1 /\ data.val[1] \in {1, 2}
         THEN TypedTx(data.val[1], Tail(data.val))
         ELSE InvalidTx
    ELSE InvalidTx

\* txs.map((txData) => TransactionFactory.fromBlockBodyData(txData)) over the
\* elements of a list or, if txs is a Buffer, over its bytes.
MapFromBlockBodyData(txs) ==
    IF txs.kind = "list"
    THEN IF \A i \in 1..Len(txs.val) :
                FromBlockBodyData(txs.val[i]) # InvalidTx
         THEN Lst([i \in 1..Len(txs.val) |-> FromBlockBodyData(txs.val[i])])
         ELSE Throws
    ELSE IF txs.kind = "bytes" /\ txs.val = <<>> THEN Lst(<<>>)
    ELSE Throws

\* Lines 328-338: Transactions.encode
EncodeTransactions(txs) == Lst(SerializeTxs(txs))

\* Lines 339-344: Transactions.decode, ([txs]) => txs.map(...): txs is the
\* first element of the payload, undefined if there is none.
DecodeTransactions(payload) ==
    IF payload.val = <<>> THEN Throws
    ELSE MapFromBlockBodyData(payload.val[1])

\* The options of a request: reqId given or left undefined.
Opts(given, reqId) == [given |-> given, reqId |-> reqId]

\* Lines 351, 384, 423, with the counter left as it is.
AutoIdStuck(i) == i

\* Lines 351, 384, 423: id.iaddn(1)
AutoId(i) == Iaddn1(i)

\* Lines 351, 384, 423: reqId === undefined ? id.iaddn(1) : new BN(reqId)
RequestReqId(opts, i) == IF opts.given THEN opts.reqId ELSE AutoId(i)

\* The counter after encode: iaddn changes `id` in place.
NextId(opts, i) == IF opts.given THEN i ELSE AutoId(i)

\* The block, max, skip and reverse of GetBlockHeaders and the hashes of the
\* other requests pass through as they are and are left out.
RequestCodes == {GET_BLOCK_HEADERS, GET_BLOCK_BODIES, GET_POOLED_TRANSACTIONS}

\* Lines 350-353, 383-386, 422-425: encode of a request.
EncodeRequest(code, opts, i) ==
    Lst(<<Buf(ToArrayLike(RequestReqId(opts, i))), Lst(<<>>)>>)

\* Lines 354-360, 387-390, 426-429: decode of a request.
DecodeRequest(payload) == [reqId |-> NewBN(payload.val[1].val)]

\* `response` of a request message: lines 349, 382, 421.
ResponseCode(code) == code + 1

\* Lines 365-368, 395-398, 434-444: encode of a response; that of
\* PooledTransactions has reqId.toNumber().
EncodeResponse(code, reqId, txs) ==
    IF code = POOLED_TRANSACTIONS
    THEN IF SafeNumber(reqId)
         THEN Lst(<<Num(reqId), Lst(SerializeTxs(txs))>>)
         ELSE Throws
    ELSE Lst(<<Buf(ToArrayLike(reqId)), Lst(<<>>)>>)

\* new BN(reqId) of a decoded element: a Buffer, or a number.
ReqIdOf(element) ==
    IF element.kind = "number" THEN element.val ELSE NewBN(element.val)

\* Lines 369-377, 399, 445-451: decode of a response: the reqId and, for
\* PooledTransactions, the transactions.
DecodeResponse(code, payload) ==
    [reqId |-> ReqIdOf(payload.val[1]),
     txs |-> IF code = POOLED_TRANSACTIONS
             THEN MapFromBlockBodyData(payload.val[2])
             ELSE Lst(<<>>)]

\* No message yet.
NoMsg ==
    [txs |-> <<>>, code |-> Undefined, payload |-> Throws, reqId |-> BNZero,
     op |-> "none", decodedReqId |-> BNZero, decodedTxs |-> Throws]

\* A request goes out: its message is encoded, and decoded at the other end.
Request(code, opts) ==
    LET payload == EncodeRequest(code, opts, id)
    IN  /\ id' = NextId(opts, id)
        /\ outstanding' =
               Append(outstanding,
                      [code |-> code, reqId |-> payload.val[1].val,
                       auto |-> ~opts.given])
        /\ lastMsg' = [op |-> "request", code |-> code,
                       reqId |-> RequestReqId(opts, id), payload |-> payload,
                       decodedReqId |-> DecodeRequest(payload).reqId,
                       txs |-> <<>>, decodedTxs |-> Throws]
        /\ UNCHANGED <<config, period, running, assembling, sched,
                       chainUpdatedListeners, setInterruptListeners, head,
                       now, pool, inv, putBlocks, lastOp, eth, wire>>

Without(seq, k) == SubSeq(seq, 1, k - 1) \o SubSeq(seq, k + 1, Len(seq))

\* The other end answers the k-th outstanding request with the reqId it
\* decoded; if its encode throws no response comes.
Respond(k, txs) ==
    LET code == ResponseCode(outstanding[k].code)
        reqId == NewBN(outstanding[k].reqId)
        payload == EncodeResponse(code, reqId, txs)
    IN  /\ k \in 1..Len(outstanding)
        /\ outstanding' = IF payload = Throws THEN outstanding
                          ELSE Without(outstanding, k)
        /\ lastMsg' =
               [op |-> "response", code |-> code, reqId |-> reqId,
                payload |-> payload,
                decodedReqId |-> IF payload = Throws THEN BNZero
                                 ELSE DecodeResponse(code, payload).reqId,
                txs |-> IF code = POOLED_TRANSACTIONS THEN txs ELSE <<>>,
                decodedTxs |-> IF payload = Throws THEN Throws
                               ELSE DecodeResponse(code, payload).txs]
        /\ UNCHANGED <<config, period, running, assembling, sched,
                       chainUpdatedListeners, setInterruptListeners, head,
                       now, pool, inv, putBlocks, lastOp, eth, wire, id>>

\* A Transactions message is encoded, and decoded at the other end.
Transactions(txs) ==
    /\ lastMsg' = [op |-> "message", code |-> TX, reqId |-> BNZero,
                   payload |-> EncodeTransactions(txs),
                   decodedReqId |-> BNZero, txs |-> txs,
                   decodedTxs |-> DecodeTransactions(EncodeTransactions(txs))]
    /\ UNCHANGED <<config, period, running, assembling, sched,
                   chainUpdatedListeners, setInterruptListeners, head,
                   now, pool, inv, putBlocks, lastOp, eth, wire, id,
                   outstanding>>

(* --------------------------- specifications --------------------------- *)
\* The bounds of the model are guards of the steps below, not of the
\* operations above.
Room(k, bound) ==
    config.poa => BagCardinality(sched.awaiting) + k <= bound

Timestamps == {head.timestamp, now \div 1000}

StepStart(bound) ==
    /\ (config.mine /\ ~running) =>
           (chainUpdatedListeners < MaxStarts /\ Room(1, bound))
    /\ Start

StepQueueResume(signers, randoms) ==
    /\ sched.pending # NoTimer => sched.orphans < MaxOrphans
    /\ \E timeout \in BagToSet(sched.awaiting) : \E inTurn \in BOOLEAN :
           \E signerCount \in signers : \E r \in randoms :
               QueueResume(timeout, inTurn, signerCount, r)

StepChainUpdate(bound) ==
    /\ Room(chainUpdatedListeners, bound)
    /\ \E advance \in BOOLEAN : \E ts \in Timestamps :
           /\ advance => head.number < MaxHead
           /\ ChainUpdate(advance, ts)

FireAssembleBlock ==
    /\ ~assembling => setInterruptListeners < MaxAssemblies
    /\ \E referenced \in BOOLEAN :
           \E recentlySigned \in (IF config.poa THEN BOOLEAN ELSE {FALSE}) :
               AssembleBlock(referenced, recentlySigned)

StepSetStateRoot == \E i \in Slots : SetStateRoot(i)

StepCliqueSignerInTurn ==
    \E i \in Slots : \E inTurn \in BOOLEAN : CliqueSignerInTurn(i, inTurn)

StepBuildBlock == \E i \in Slots : BuildBlock(i)

StepEligible == \E i \in Slots : Eligible(i)

StepAddTransaction == \E i \in Slots : AddTransaction(i)

StepBuild == \E i \in Slots : Build(i)

StepHandleNewBlock(bound) ==
    /\ Room(chainUpdatedListeners, bound)
    /\ \E i \in Slots : \E ts \in Timestamps : HandleNewBlock(i, ts)

StepHandleNewBlockFails == \E i \in Slots : HandleNewBlockFails(i)

StepRemoveNewBlockTxs == \E i \in Slots : RemoveNewBlockTxs(i)

Assembly ==
    \/ FireAssembleBlock
    \/ StepSetStateRoot
    \/ StepCliqueSignerInTurn
    \/ StepBuildBlock
    \/ StepEligible
    \/ StepAddTransaction
    \/ StepBuild
    \/ StepHandleNewBlock(MaxAwaiting)
    \/ StepHandleNewBlockFails
    \/ StepRemoveNewBlockTxs

\* The miner among start, stop, chain updates and its own assemblies.  The
\* clock stands still and Math.random() yields 0: when a timer fires does
\* not depend on its delay here; SpecSched is about the delays.
Init ==
    /\ \E c \in [mine : BOOLEAN, poa : BOOLEAN, period : {1},
                 london : {Undefined}] : InitMiner(c)
    /\ head = Genesis(100000, config.london)
    /\ pool = {Tx("A", 0, 1000, 99999, 99999, TRUE),
               Tx("A", 1, 2000, 21000, 21000, TRUE)}
    /\ eth = NoSessions
    /\ wire = NoWire
    /\ id = BNZero
    /\ outstanding = <<>>
    /\ lastMsg = NoMsg

Next ==
    \/ StepStart(MaxAwaiting)
    \/ Stop
    \/ StepQueueResume({1}, {0})
    \/ StepChainUpdate(MaxAwaiting)
    \/ Assembly

Spec == Init /\ [][Next]_vars

StepAssemblyRejects == \E i \in Slots : AssemblyRejects(i)

\* The same miner when the calls assembleBlock awaits may reject.
NextRejects ==
    \/ Next
    \/ StepAssemblyRejects

SpecRejects == Init /\ [][NextRejects]_vars

\* The chain advances by a block of another signer.
LiveChainUpdate ==
    /\ Room(chainUpdatedListeners, MaxAwaiting)
    /\ head.number < MaxLiveHead
    /\ ChainUpdate(TRUE, head.timestamp)

\* The timer callback, as often as there are timers.
LiveFire ==
    \E referenced \in BOOLEAN :
        \E recentlySigned \in (IF config.poa THEN BOOLEAN ELSE {FALSE}) :
            AssembleBlock(referenced, recentlySigned)

LiveHandleNewBlock ==
    /\ Room(chainUpdatedListeners, MaxAwaiting)
    /\ head.number < MaxLiveHead
    /\ \E i \in Slots : HandleNewBlock(i, head.timestamp)

\* An await of an assembly in flight settles.
LiveAwaitSettles ==
    \/ StepSetStateRoot
    \/ StepCliqueSignerInTurn
    \/ StepBuildBlock
    \/ StepEligible
    \/ StepAddTransaction
    \/ StepBuild
    \/ LiveHandleNewBlock
    \/ StepHandleNewBlockFails
    \/ StepRemoveNewBlockTxs

LiveQueueResume == StepQueueResume({1}, {0})

InitLive ==
    /\ \E c \in [mine : {TRUE}, poa : BOOLEAN, period : {1},
                 london : {Undefined}] : InitMiner(c)
    /\ head = Genesis(100000, config.london)
    /\ pool = {Tx("A", 0, 1000, 21000, 21000, TRUE)}
    /\ eth = NoSessions
    /\ wire = NoWire
    /\ id = BNZero
    /\ outstanding = <<>>
    /\ lastMsg = NoMsg

NextLive ==
    \/ StepStart(MaxAwaiting)
    \/ Stop
    \/ LiveQueueResume
    \/ LiveChainUpdate
    \/ LiveFire
    \/ LiveAwaitSettles

\* The miner while the chain advances a bounded number of blocks.  The event
\* loop runs every timer that stays pending and settles every await: a
\* pending timer fires, a suspended queueNextAssembly resumes, an assembly
\* in flight goes on.
SpecLive ==
    /\ InitLive /\ [][NextLive]_vars
    /\ WF_vars(LiveFire)
    /\ WF_vars(LiveQueueResume)
    /\ WF_vars(LiveAwaitSettles)

\* The timers of the miner: start, stop, chain updates, the clock and the
\* timer callbacks, whose assemblies take longer than the run.
InitSched ==
    /\ \E c \in [mine : {TRUE}, poa : BOOLEAN, period : {1, Undefined},
                 london : {Undefined}] : InitMiner(c)
    /\ head = Genesis(100000, config.london)
    /\ pool = {}
    /\ eth = NoSessions
    /\ wire = NoWire
    /\ id = BNZero
    /\ outstanding = <<>>
    /\ lastMsg = NoMsg

NextSched ==
    \/ StepStart(MaxSchedAwaiting)
    \/ Stop
    \/ StepQueueResume(1..MaxSigners, 0..(RandDenom - 1))
    \/ StepChainUpdate(MaxSchedAwaiting)
    \/ Tick
    \/ FireAssembleBlock

SpecSched == InitSched /\ [][NextSched]_vars

\* One miner assembling block after block from every pool over TxUniverse,
\* across the London block.
InitAssemble ==
    /\ \E c \in [mine : {TRUE}, poa : BOOLEAN, period : {1},
                 london : {Undefined, 0, 1, 2}] : InitMiner(c)
    /\ \E gasLimit \in {100000, 141999} : head = Genesis(gasLimit, config.london)
    /\ pool \in SUBSET TxUniverse
    /\ eth = NoSessions
    /\ wire = NoWire
    /\ id = BNZero
    /\ outstanding = <<>>
    /\ lastMsg = NoMsg

NextAssemble ==
    \/ StepStart(MaxAwaiting)
    \/ StepQueueResume({1}, {0})
    \/ Assembly

SpecAssemble == InitAssemble /\ [][NextAssemble]_vars

\* Two sessions, one at each end of a connection, created at time 0: the
\* ends agree or differ in protocol version, network, genesis and hardfork.
InitEth ==
    /\ InitMiner([mine |-> FALSE, poa |-> FALSE, period |-> 1,
                  london |-> Undefined])
    /\ head = Genesis(100000, Undefined)
    /\ pool = {}
    /\ \E va \in {63, 64}, vb \in {63, 64}, nb \in {1, 4}, gb \in {1, 2},
          ha \in 1..Len(Hardforks), hb \in 1..Len(Hardforks) :
           eth = [p \in Peers |-> IF p = "a" THEN NewETH(va, 4, 1, ha, 10, 11)
                                  ELSE NewETH(vb, nb, gb, hb, 20, 21)]
    /\ wire = [inbox |-> [p \in Peers |-> <<>>], injected |-> 0]
    /\ id = BNZero
    /\ outstanding = <<>>
    /\ lastMsg = NoMsg

StepSendStatus ==
    \E p \in Peers : \E latestBlock \in {Undefined, 2, 3} :
        \E callerDisconnects \in BOOLEAN :
            SendStatus(p, latestBlock, callerDisconnects)

StepHandleMessage == \E p \in Peers : HandleMessage(p)

StepInject ==
    \E p \in Peers :
        \E payload \in {LocalStatus(eth[Remote(p)]), ForeignStatus} :
            Inject(p, payload)

NextEth ==
    \/ StepSendStatus
    \/ StepHandleMessage
    \/ StepInject
    \/ StatusTick

SpecEth == InitEth /\ [][NextEth]_vars

\* The message codes of the protocol and three that are none: 0x00 to 0x11.
Codes == 0..17

Versions == {ETH62, ETH63, ETH64, ETH65, ETH66}

\* The messages other than STATUS on the way to p.
InFlightTo(p) ==
    Cardinality({i \in 1..Len(wire.inbox[p]) : wire.inbox[p][i].code # STATUS})

\* There is room for one more message other than STATUS on the way to p.
WireRoom(p) ==
    /\ InFlightTo(p) + InFlightTo(Remote(p)) < MaxWire
    /\ eth[p].messageEvents < MaxMessages

\* Two sessions of one chain, of any two protocol versions.
InitGate ==
    /\ InitMiner([mine |-> FALSE, poa |-> FALSE, period |-> 1,
                  london |-> Undefined])
    /\ head = Genesis(100000, Undefined)
    /\ pool = {}
    /\ \E va \in Versions, vb \in Versions :
           eth = [p \in Peers |->
                     IF p = "a" THEN NewETH(va, 4, 1, Len(Hardforks), 10, 11)
                     ELSE NewETH(vb, 4, 1, Len(Hardforks), 20, 21)]
    /\ wire = [inbox |-> [p \in Peers |-> <<>>], injected |-> 0]
    /\ id = BNZero
    /\ outstanding = <<>>
    /\ lastMsg = NoMsg

StepSendStatusGate ==
    \E p \in Peers : \E callerDisconnects \in BOOLEAN :
        SendStatus(p, Undefined, callerDisconnects)

StepSendMessage ==
    \E p \in Peers : \E code \in Codes :
        WireRoom(Remote(p)) /\ SendMessage(p, code)

StepInjectMessage ==
    \E p \in Peers : \E code \in Codes \ {STATUS} :
        WireRoom(p) /\ InjectMessage(p, code)

NextGate ==
    \/ StepSendStatusGate
    \/ StepHandleMessage
    \/ StepSendMessage
    \/ StepInjectMessage

SpecGate == InitGate /\ [][NextGate]_vars

\* The protocolVersion a HELLO may declare, and no HELLO at all.
HelloVersions == {Undefined, 0, 4, 5}

\* Two eth/65 sessions of one chain, each with any HELLO of its remote.
InitSnappy ==
    /\ InitMiner([mine |-> FALSE, poa |-> FALSE, period |-> 1,
                  london |-> Undefined])
    /\ head = Genesis(100000, Undefined)
    /\ pool = {}
    /\ \E ha \in HelloVersions, hb \in HelloVersions :
           eth = [p \in Peers |->
                     IF p = "a"
                     THEN Hello(NewETH(ETH65, 4, 1, Len(Hardforks), 10, 11), ha)
                     ELSE Hello(NewETH(ETH65, 4, 1, Len(Hardforks), 20, 21), hb)]
    /\ wire = [inbox |-> [p \in Peers |-> <<>>], injected |-> 0]
    /\ id = BNZero
    /\ outstanding = <<>>
    /\ lastMsg = NoMsg

StepSendStatusSnappy ==
    \E p \in Peers : SendStatus(p, Undefined, FALSE)

StepHandleSnappy == \E p \in Peers : HandleMessage(p)

StepSendMessageSnappy ==
    \E p \in Peers : \E code \in {STATUS, TX, GET_NODE_DATA,
                                    NEW_POOLED_TRANSACTION_HASHES, 17} :
        WireRoom(Remote(p)) /\ SendMessage(p, code)

NextSnappy ==
    \/ StepSendStatusSnappy
    \/ StepHandleSnappy
    \/ StepSendMessageSnappy

SpecSnappy == InitSnappy /\ [][NextSnappy]_vars

\* The fork hashes a remote may advertise: those of the hardforks of the
\* chain of genesis hash 1 and one of no hardfork; and the next-fork blocks.
ForkIds ==
    {<<hash, next>> : hash \in {ForkHash(1, h) : h \in 1..Len(Hardforks)}
                                  \cup {ForkHash(2, 1)},
                      next \in 0..4}

\* An eth/64 session on any hardfork of its chain; its remote is of the same
\* version, network and genesis, and advertises any fork id.
InitForkId ==
    /\ InitMiner([mine |-> FALSE, poa |-> FALSE, period |-> 1,
                  london |-> Undefined])
    /\ head = Genesis(100000, Undefined)
    /\ pool = {}
    /\ \E h \in 1..Len(Hardforks) :
           eth = [p \in Peers |-> IF p = "a" THEN NewETH(ETH64, 4, 1, h, 10, 11)
                                  ELSE NewETH(ETH64, 4, 1, h, 20, 21)]
    /\ wire = [inbox |-> [p \in Peers |-> <<>>], injected |-> 0]
    /\ id = BNZero
    /\ outstanding = <<>>
    /\ lastMsg = NoMsg

StepInjectForkId ==
    \E forkId \in ForkIds :
        Inject("a", StatusMsg(ETH64, 4, 20, 21, 1, forkId))

StepSendStatusForkId ==
    \E latestBlock \in {Undefined} \cup 1..4 :
        SendStatus("a", latestBlock, FALSE)

StepHandleForkId == HandleMessage("a")

NextForkId ==
    \/ StepInjectForkId
    \/ StepSendStatusForkId
    \/ StepHandleForkId

SpecForkId == InitForkId /\ [][NextForkId]_vars

\* The request ids a caller supplies, and the counter values the requests
\* start from: at 0, below 2^53 and below 2^64.
ReqIds ==
    {BNZero, <<1>>, <<0, 1>>, BNMaxSafe, BNMaxSafePlus1, BNMax64}

RECURSIVE IaddnTimes(_, _)
IaddnTimes(bn, n) == IF n = 0 THEN bn ELSE IaddnTimes(Iaddn1(bn), n - 1)

InitIds == {BNZero, BNMax64Less1}

\* The counter has made fewer than MaxRequests steps.
FewRequests ==
    \E i \in InitIds : \E n \in 0..(MaxRequests - 1) : id = IaddnTimes(i, n)

\* The transactions of a message: a legacy one and one of each type.
ProtocolTxs ==
    {TypedTx(0, <<9, 8, 7, 6, 5, 4, 3, 2, 1>>), TypedTx(1, <<3, 4>>),
     TypedTx(2, <<5>>)}

TxLists ==
    UNION {[1..n -> ProtocolTxs] : n \in 0..MaxTxs}

\* The protocol with its counter at 0 or, after many requests, near 2^64.
InitProto ==
    /\ InitMiner([mine |-> FALSE, poa |-> FALSE, period |-> 1,
                  london |-> Undefined])
    /\ head = Genesis(100000, Undefined)
    /\ pool = {}
    /\ eth = NoSessions
    /\ wire = NoWire
    /\ id \in InitIds
    /\ outstanding = <<>>
    /\ lastMsg = NoMsg

StepRequest ==
    /\ Len(outstanding) < MaxOutstanding
    /\ FewRequests
    /\ \E code \in RequestCodes :
           \E opts \in {Opts(FALSE, BNZero)}
                       \cup {Opts(TRUE, r) : r \in ReqIds} :
               Request(code, opts)

StepRespond ==
    \E k \in 1..Len(outstanding) : \E txs \in {<<>>} : Respond(k, txs)

\* The oldest request, for pooled transactions, is answered with some.
StepRespondTxs ==
    \E txs \in TxLists \ {<<>>} :
        /\ outstanding # <<>>
        /\ outstanding[1].code = GET_POOLED_TRANSACTIONS
        /\ Respond(1, txs)

\* Transactions are announced while no request is outstanding.
StepTransactions ==
    \E txs \in TxLists : outstanding = <<>> /\ Transactions(txs)

NextProto ==
    \/ StepRequest
    \/ StepRespond
    \/ StepRespondTxs
    \/ StepTransactions

SpecProto == InitProto /\ [][NextProto]_vars

(* ------------------------------ claims -------------------------------- *)
PreSubmit == {"state", "inturn", "buildBlock", "txs", "loop", "build"}

Submitting == {"submit", "submitted"}

EmitOps == {"chainUpdate", "handleNewBlock"}

AssembleOps ==
    {"assembleBlock:reentrant", "assembleBlock:recentlySigned",
     "assembleBlock:begin"}

\* C1: a CHAIN_UPDATED emitted while an invocation is past the registration
\* of its listener and before its submission interrupts that invocation, an
\* interrupted invocation never reaches handleNewBlock, and `assembling` is
\* false when the event has been delivered.
C1_Cancellation ==
    [][ /\ \A i \in Slots :
               (inv[i].pc \in PreSubmit /\ inv[i].interrupt)
                   => inv'[i].pc \notin Submitting
        /\ lastOp' \in EmitOps =>
               /\ \A i \in Slots :
                      inv[i].pc \in PreSubmit
                          => (inv'[i].interrupt /\ inv'[i].pc = inv[i].pc)
               /\ (\E i \in Slots : inv[i].pc \in PreSubmit)
                      => assembling' = FALSE ]_vars

\* An invocation was interrupted by a CHAIN_UPDATED and has returned with
\* no block put on the chain.
C1_Witness ==
    /\ lastOp = "assembleBlock:interrupted"
    /\ putBlocks = <<>>
    /\ ~assembling

\* C2: at most one assembleBlock invocation is between its start and its
\* return, whether interrupted or not.
C2_AtMostOneInFlight == Cardinality(InFlight) <= 1

\* C3: a call of assembleBlock made while `assembling` is true registers no
\* listener, begins no invocation, builds and submits nothing and leaves
\* `assembling` as it was.
C3_ReentrantNoop ==
    [][ (assembling /\ lastOp' \in AssembleOps)
            => /\ lastOp' = "assembleBlock:reentrant"
               /\ UNCHANGED <<assembling, setInterruptListeners, inv, pool,
                              putBlocks, head, running,
                              chainUpdatedListeners>> ]_vars

\* assembleBlock was called while an invocation was in flight and the flag set.
C3_Witness ==
    /\ lastOp = "assembleBlock:reentrant"
    /\ assembling
    /\ InFlight # {}

\* C4: while the miner is stopped it is unsubscribed and no assembly timer
\* is pending.
C4_StoppedIdle ==
    ~running => (chainUpdatedListeners = 0 /\ PendingTimers(sched) = 0)

\* C5: an assembly that stop() found in flight before its last interrupt
\* check does not go on to submit its block.
C5_StoppedAssemblyUnwinds ==
    /\ \A i \in Slots : inv[i].stopped => inv[i].pc \notin Submitting
    /\ \A k \in 1..Len(putBlocks) : ~putBlocks[k].stopped

\* C6: running is false at first; start() refuses, changing nothing, when
\* config.mine is false or the miner runs, and otherwise sets running,
\* subscribes and schedules the first assembly after `period`; stop()
\* refuses, changing nothing, when the miner does not run, and otherwise
\* clears running; nothing else changes running.
C6_StartStop ==
    /\ running = FALSE
    /\ [][ /\ lastOp' = "start:false" =>
                  /\ ~config.mine \/ running
                  /\ UNCHANGED <<id, outstanding, lastMsg, eth, wire, config, period, running, assembling, sched,
                                 chainUpdatedListeners, setInterruptListeners,
                                 head, now, pool, inv, putBlocks>>
           /\ lastOp' = "start:true" =>
                  /\ config.mine /\ ~running /\ running'
                  /\ chainUpdatedListeners' = chainUpdatedListeners + 1
                  /\ IF config.poa
                     THEN sched'.awaiting = sched.awaiting (+) SetToBag({period})
                     ELSE sched'.pending = period
           /\ lastOp' = "stop:false" =>
                  /\ ~running
                  /\ UNCHANGED <<id, outstanding, lastMsg, eth, wire, config, period, running, assembling, sched,
                                 chainUpdatedListeners, setInterruptListeners,
                                 head, now, pool, inv, putBlocks>>
           /\ lastOp' = "stop:true" => (running /\ ~running')
           /\ running' # running => lastOp' \in {"start:true", "stop:true"}
         ]_vars

\* The miner was started and then stopped.
C6_Witness ==
    /\ lastOp = "stop:true"
    /\ ~running
    /\ chainUpdatedListeners > 0

\* C7: a CHAIN_UPDATED delivered to a subscribed miner leaves no timer
\* pending but the one it schedules, after max(0, timestamp * 1000 + period
\* - now) ms (on proof of authority the timer is set once
\* cliqueSignerInTurn has answered).
C7_ChainUpdatedReschedules ==
    [][ (lastOp' = "chainUpdate" /\ chainUpdatedListeners > 0) =>
            LET target == head'.timestamp * 1000 + period - now
                delay == IF target > 0 THEN target ELSE 0
            IN  IF config.poa
                THEN /\ PendingTimers(sched') = 0
                     /\ BagIn(delay, sched'.awaiting)
                ELSE /\ PendingTimers(sched') = 1
                     /\ sched'.pending = delay ]_vars

\* C8: on proof of authority, when the signer has recently signed,
\* assembleBlock begins no invocation (no VM copy, no block built or
\* submitted), leaves the pool alone and returns with `assembling` false.
C8_RecentlySignedAbort ==
    [][ lastOp' = "assembleBlock:recentlySigned" =>
            /\ config.poa
            /\ assembling' = FALSE
            /\ UNCHANGED <<inv, pool, putBlocks, head>> ]_vars

\* assembleBlock has aborted because the signer had recently signed.
C8_Witness ==
    /\ lastOp = "assembleBlock:recentlySigned"
    /\ config.poa
    /\ setInterruptListeners > 0

\* The header fields of block n on parent p, as C9 states them.
C9_Fields(n, p, gasLimit, baseFeePerGas) ==
    IF config.london # Undefined /\ n = config.london
    THEN baseFeePerGas = InitialBaseFee /\ gasLimit = 2 * p.gasLimit
    ELSE /\ gasLimit = p.gasLimit
         /\ IF config.london # Undefined /\ n > config.london
            THEN baseFeePerGas = CalcNextBaseFee(p)
            ELSE baseFeePerGas = Undefined

\* C9: the header of every block the miner assembles has the gas limit and
\* the base fee the London rules give it.
C9_HeaderFields ==
    /\ \A i \in Slots :
           (inv[i].pc \in {"buildBlock", "txs", "loop", "build", "submit",
                           "submitted"} /\ ~inv[i].interrupt)
               => C9_Fields(inv[i].number, inv[i].parent, inv[i].gasLimit,
                            inv[i].baseFeePerGas)
    /\ \A k \in 1..Len(putBlocks) :
           C9_Fields(putBlocks[k].number, putBlocks[k].parent,
                     putBlocks[k].gasLimit, putBlocks[k].baseFeePerGas)

\* The miner has assembled the London block and the block after it.
C9_Witness ==
    /\ Len(putBlocks) = 2
    /\ config.london # Undefined
    /\ putBlocks[1].number = config.london
    /\ putBlocks[2].number = config.london + 1
    /\ putBlocks[2].baseFeePerGas # InitialBaseFee

\* C10: when addTransaction refuses a transaction for its gas limit and
\* less than 21000 gas remains, the block is full: the transaction is not
\* included and the loop ends; with 21000 or more remaining the transaction
\* is skipped and the loop goes on with the next one.
C10_BlockFull ==
    [][ \A i \in Slots :
            (/\ inv[i].pc = "loop"
             /\ inv'[i] # inv[i]
             /\ ~inv[i].interrupt /\ ~inv'[i].interrupt
             /\ inv[i].txs[inv[i].index + 1].gasLimit
                    > inv[i].gasLimit - inv[i].gasUsed)
            => /\ inv'[i].body = inv[i].body
               /\ inv'[i].gasUsed = inv[i].gasUsed
               /\ IF inv[i].gasLimit - inv[i].gasUsed < 21000
                  THEN inv'[i].blockFull /\ inv'[i].pc = "build"
                  ELSE /\ ~inv'[i].blockFull
                       /\ inv'[i].index = inv[i].index + 1
                       /\ inv'[i].pc = IF inv'[i].index < Len(inv[i].txs)
                                       THEN "loop" ELSE "build" ]_vars

\* The loop of an invocation has ended on a full block, with transactions
\* in the block and a transaction of the list left untried.
C10_Witness ==
    \E i \in Slots :
        /\ inv[i].pc = "build"
        /\ inv[i].blockFull
        /\ inv[i].body # <<>>
        /\ inv[i].index < Len(inv[i].txs)

\* The loop has the list of eligible transactions.
TxsKnown == {"loop", "build", "submit", "submitted"}

\* addTransaction raises an error for tx in the workspace v.
C11_Raises(v, tx) ==
    \/ tx.gasLimit > v.gasLimit - v.gasUsed
    \/ tx.nonce # v.nonces[tx.sender]
    \/ ~tx.valid
    \/ (v.baseFeePerGas # Undefined /\ tx.gasPrice < v.baseFeePerGas)

\* C11: an error of addTransaction stays in the loop: the invocation goes
\* on (to the next transaction, or to build when the list is at its end or
\* the block full), the transaction is not in the block, and only the gas
\* error can mark the block full.
C11_ErrorsRecovered ==
    [][ \A i \in Slots :
            (/\ inv[i].pc = "loop"
             /\ inv'[i] # inv[i]
             /\ ~inv[i].interrupt /\ ~inv'[i].interrupt
             /\ C11_Raises(inv[i], inv[i].txs[inv[i].index + 1]))
            => /\ inv'[i].pc \in {"loop", "build"}
               /\ lastOp' # "assembleBlock:unhandledRejection"
               /\ inv'[i].body = inv[i].body
               /\ inv'[i].index = inv[i].index + 1
               /\ inv[i].txs[inv[i].index + 1].gasLimit
                      <= inv[i].gasLimit - inv[i].gasUsed
                    => ~inv'[i].blockFull
               /\ (~inv'[i].blockFull /\ inv'[i].index < Len(inv[i].txs))
                    => inv'[i].pc = "loop" ]_vars

\* The loop goes on after a transaction that had gas enough and was refused
\* (for its nonce, by the VM or for its fee).
C11_Witness ==
    \E i \in Slots :
        /\ inv[i].pc = "loop"
        /\ inv[i].index >= 1
        /\ LET tx == inv[i].txs[inv[i].index]
           IN  /\ tx \notin SeqToSet(inv[i].body)
               /\ tx.gasLimit <= inv[i].gasLimit - inv[i].gasUsed
               /\ C11_Raises(inv[i], tx)

\* C12: when the submission of the sealed block fails, the failure does not
\* leave assembleBlock unhandled, the pool keeps the block's transactions
\* and `assembling` is false.
C12_SubmitFailureContained ==
    [][ (\E i \in Slots : inv[i].pc = "submit" /\ inv'[i].pc = "idle")
            => /\ lastOp' # "assembleBlock:unhandledRejection"
               /\ pool' = pool
               /\ ~assembling' ]_vars

\* C13: the gas used in a block-builder workspace, and in every block put
\* on the chain, is at most the gas limit of its header.
C13_GasUsedWithinLimit ==
    /\ \A i \in Slots : inv[i].gasUsed <= inv[i].gasLimit
    /\ \A k \in 1..Len(putBlocks) : putBlocks[k].gasUsed <= putBlocks[k].gasLimit

\* A workspace holds transactions and has refused the last one tried for
\* its gas limit.
C13_Witness ==
    \E i \in Slots :
        /\ inv[i].pc \in TxsKnown
        /\ inv[i].index >= 2
        /\ inv[i].gasUsed > 0
        /\ inv[i].txs[inv[i].index] \notin SeqToSet(inv[i].body)
        /\ inv[i].txs[inv[i].index].gasLimit > inv[i].gasLimit - inv[i].gasUsed

\* The transactions of q are, sender by sender, in strictly ascending nonce
\* order from the sender's nonce in `nonces`.
C14_NonceOrder(q, nonces) ==
    \A l \in 1..Len(q) :
        /\ \A k \in 1..(l - 1) :
               q[k].sender = q[l].sender => q[k].nonce < q[l].nonce
        /\ (\A k \in 1..(l - 1) : q[k].sender # q[l].sender)
               => q[l].nonce = nonces[q[l].sender]

\* Every transaction of q pays at least as much as the transactions that
\* were the head of another sender's queue when it was yielded.
C14_PriceOrder(q) ==
    \A k \in 1..Len(q) : \A l \in (k + 1)..Len(q) :
        (\A m \in k..(l - 1) : q[m].sender # q[l].sender)
            => q[k].gasPrice >= q[l].gasPrice

\* C14: the eligible list is in nonce order per sender and in price order
\* across the senders' heads, so is the block in nonce order, and the pool
\* of the four test transactions yields (B,0), (A,0), (A,1), (A,2).
C14_TxOrdering ==
    /\ \A i \in Slots :
           inv[i].pc \in TxsKnown
               => /\ C14_NonceOrder(inv[i].txs, inv[i].parent.nonces)
                  /\ C14_PriceOrder(inv[i].txs)
                  /\ C14_NonceOrder(inv[i].body, inv[i].parent.nonces)
                  /\ (/\ ~inv[i].interrupt
                      /\ inv[i].parent.number = 0
                      /\ pool = TxUniverse \ {Tx("B", 1, 500, 21000, 21000, TRUE)})
                         => inv[i].txs =
                                << Tx("B", 0, 2500, 60000, 30000, TRUE),
                                   Tx("A", 0, 1000, 99999, 99999, TRUE),
                                   Tx("A", 1, 2000, 21000, 21000, TRUE),
                                   Tx("A", 2, 3000, 60000, 30000, FALSE) >>
    /\ \A k \in 1..Len(putBlocks) :
           C14_NonceOrder(putBlocks[k].transactions, putBlocks[k].parent.nonces)

\* A block of three transactions of two senders, the dearer sender first,
\* was assembled from the four test transactions.
C14_Witness ==
    \E k \in 1..Len(putBlocks) :
        /\ Len(putBlocks[k].transactions) = 3
        /\ putBlocks[k].transactions[1].sender = "B"
        /\ putBlocks[k].transactions[2].sender = "A"
        /\ putBlocks[k].transactions[3].nonce = 1
        /\ Tx("A", 2, 3000, 60000, 30000, FALSE) \in pool

\* C15: no transaction that pays less than the base fee of the block being
\* assembled is in the eligible list, in the workspace or in the block.
C15_BaseFeeExclusion ==
    /\ \A i \in Slots :
           (inv[i].pc \in TxsKnown /\ inv[i].baseFeePerGas # Undefined)
               => /\ \A k \in 1..Len(inv[i].txs) :
                         inv[i].txs[k].gasPrice >= inv[i].baseFeePerGas
                  /\ \A k \in 1..Len(inv[i].body) :
                         inv[i].body[k].gasPrice >= inv[i].baseFeePerGas
    /\ \A k \in 1..Len(putBlocks) :
           putBlocks[k].baseFeePerGas # Undefined
               => \A l \in 1..Len(putBlocks[k].transactions) :
                      putBlocks[k].transactions[l].gasPrice
                          >= putBlocks[k].baseFeePerGas

\* A block with a base fee holds the first transaction of B while B's next
\* transaction, which pays less than the base fee, is left in the pool.
C15_Witness ==
    \E k \in 1..Len(putBlocks) :
        /\ putBlocks[k].baseFeePerGas # Undefined
        /\ Tx("B", 0, 2500, 60000, 30000, TRUE)
               \in SeqToSet(putBlocks[k].transactions)
        /\ Tx("B", 1, 500, 21000, 21000, TRUE) \in pool
        /\ putBlocks[k].baseFeePerGas > 500

\* A step in which p's session takes a message off the wire.
Receives(p) == Len(wire'.inbox[p]) < Len(wire.inbox[p])

\* C16: a session accepts one inbound STATUS only.  When a STATUS has been
\* received, whether its validation went through or not, a further inbound
\* STATUS fails with 'Uncontrolled status message', leaves the stored remote
\* status as it was and emits neither a `status` nor a `message` event.
C16_OneInboundStatus ==
    [][\A p \in Peers :
          (/\ Receives(p)
           /\ Head(wire.inbox[p]).code = STATUS
           /\ eth[p].peerStatus # NoStatus) =>
              /\ "Uncontrolled status message" \in eth'[p].errors
              /\ eth'[p].peerStatus = eth[p].peerStatus
              /\ eth'[p].statusEvents = eth[p].statusEvents
              /\ eth'[p].messageEvents = eth[p].messageEvents]_vars

\* A second STATUS reached a session that had accepted the first and was
\* established.
C16_Witness ==
    \E p \in Peers :
        /\ "Uncontrolled status message" \in eth[p].errors
        /\ Established(eth[p])
        /\ eth[p].messageEvents = 1

\* The local STATUS went out and a remote STATUS came in.
Exchanged(s) == s.sent > 0 /\ s.peerStatus # NoStatus

MismatchNames ==
    {"Protocol version mismatch", "NetworkId mismatch",
     "Genesis block mismatch"}

\* The first field, in the order version, network id, genesis hash, in
\* which the two STATUS of a session differ, by the name of its assertion.
FirstMismatch(s) ==
    IF s.status.version # s.peerStatus.version
    THEN "Protocol version mismatch"
    ELSE IF s.status.networkId # s.peerStatus.networkId
    THEN "NetworkId mismatch"
    ELSE IF s.status.genesisHash # s.peerStatus.genesisHash
    THEN "Genesis block mismatch"
    ELSE "none"

\* C17: when the local and the remote STATUS of a session differ in protocol
\* version, network id or genesis hash, the handshake has failed with the
\* assertion of the first differing field in that order, with no other of
\* the three, and the session has emitted no `status` event.
C17_ValidationOrder ==
    \A p \in Peers :
        (Exchanged(eth[p]) /\ FirstMismatch(eth[p]) # "none") =>
            /\ eth[p].errors \cap MismatchNames = {FirstMismatch(eth[p])}
            /\ eth[p].statusEvents = <<>>

\* A handshake in which network id and genesis hash both differ failed on
\* the network id.
C17_Witness ==
    \E p \in Peers :
        /\ Exchanged(eth[p])
        /\ eth[p].status.version = eth[p].peerStatus.version
        /\ eth[p].status.networkId # eth[p].peerStatus.networkId
        /\ eth[p].status.genesisHash # eth[p].peerStatus.genesisHash
        /\ "NetworkId mismatch" \in eth[p].errors

\* Two sessions that agree in protocol version, network id and genesis hash
\* and, from eth/64 on, advertise the same fork id, whose next fork neither
\* has passed.
Compatible(s, t) ==
    /\ s.version = t.version
    /\ s.networkId = t.networkId
    /\ s.genesisHash = t.genesisHash
    /\ s.version >= ETH64 =>
           /\ s.forkHash = t.forkHash
           /\ s.nextForkBlock = t.nextForkBlock
           /\ s.nextForkBlock # 0 =>
                  (s.latestBlock < s.nextForkBlock
                   /\ t.latestBlock < t.nextForkBlock)

\* C18: when two compatible sessions have each sent their STATUS and each
\* received the other's, in whichever order the two sends and the two
\* receives happened, both are established and each has emitted the `status`
\* event exactly once, with the values of the other.
C18_StatusSymmetry ==
    (/\ wire.injected = 0
     /\ Compatible(eth["a"], eth["b"])
     /\ \A p \in Peers : Exchanged(eth[p])) =>
        \A p \in Peers :
            /\ Established(eth[p])
            /\ Len(eth[p].statusEvents) = 1
            /\ eth[p].statusEvents[1].td = eth[Remote(p)].td
            /\ eth[p].statusEvents[1].bestHash = eth[Remote(p)].bestHash
            /\ eth[p].disconnects = {}

\* Two compatible eth/64 sessions are established, a receive being the last
\* of the two sends and two receives.
C18_Witness ==
    /\ wire.injected = 0
    /\ Compatible(eth["a"], eth["b"])
    /\ eth["a"].version = ETH64
    /\ \A p \in Peers : Exchanged(eth[p]) /\ Len(eth[p].statusEvents) = 1
    /\ lastOp = "handleMessage:status"

\* C19: a session disconnects its peer with reason TIMEOUT at its deadline,
\* 5 s after its creation, if and only if by then it has not both sent its
\* STATUS and received the remote one; when both have happened the timeout
\* is cancelled and has not fired.
C19_StatusTimeout ==
    \A p \in Peers :
        /\ now >= eth[p].deadline =>
               ("TIMEOUT" \in eth[p].disconnects <=> ~Exchanged(eth[p]))
        /\ now < eth[p].deadline => "TIMEOUT" \notin eth[p].disconnects
        /\ Exchanged(eth[p]) =>
               (eth[p].timer = "cleared" /\ "TIMEOUT" \notin eth[p].disconnects)

\* The same for the sessions in which no sendStatus call has failed on the
\* latest block.
C19_BesidesRefusedLatestBlock ==
    \A p \in Peers :
        (eth[p].status # NoStatus => eth[p].sent > 0) =>
            /\ now >= eth[p].deadline =>
                   ("TIMEOUT" \in eth[p].disconnects <=> ~Exchanged(eth[p]))
            /\ now < eth[p].deadline => "TIMEOUT" \notin eth[p].disconnects
            /\ Exchanged(eth[p]) =>
                   (eth[p].timer = "cleared"
                    /\ "TIMEOUT" \notin eth[p].disconnects)

\* C20: from 5 s after its creation on, every session is established (it
\* has emitted `status`) or its peer has been disconnected; and the status
\* timeout has been cleared only in sessions whose handshake succeeded.
C20_EstablishedOrDisconnected ==
    \A p \in Peers :
        /\ now >= eth[p].deadline => (Established(eth[p]) \/ Closed(eth[p]))
        /\ eth[p].timer = "cleared" => Established(eth[p])

\* The versions from which a message code may be sent and received: 0x01 to
\* 0x07 from eth/62, 0x0d to 0x10 from eth/63, 0x08 to 0x0a from eth/65.
AllowedFor(version, code) ==
    \/ code \in 1..7 /\ version >= 62
    \/ code \in 13..16 /\ version >= 63
    \/ code \in 8..10 /\ version >= 65

\* C21: for every version from 62 to 66 and every message code, sendMessage
\* hands the message to the transport if and only if the code is allowed for
\* the version; for every other code, STATUS and the unknown ones included,
\* it fails with an error and hands nothing to the transport.
C21_SendGating ==
    [][\A p \in Peers : \A code \in Codes :
          SendMessage(p, code) =>
              IF AllowedFor(eth[p].version, code)
              THEN /\ wire'.inbox[Remote(p)] =
                          Append(wire.inbox[Remote(p)], Message(code))
                   /\ lastOp' = "sendMessage:sent"
              ELSE /\ wire' = wire
                   /\ lastOp' = "sendMessage:error"]_vars

\* An eth/65 session has sent NewPooledTransactionHashes, and the other end,
\* an eth/64 session, has it in its inbox.
C21_Witness ==
    \E p \in Peers :
        /\ eth[p].version = ETH65
        /\ eth[Remote(p)].version = ETH64
        /\ lastOp = "sendMessage:sent"
        /\ wire.inbox[Remote(p)] # <<>>
        /\ wire.inbox[Remote(p)][Len(wire.inbox[Remote(p)])].code =
               NEW_POOLED_TRANSACTION_HASHES

\* C22: an inbound message whose code is not allowed for the version of the
\* session, or is unknown, is dropped silently: the session stays as it was
\* (local and remote status, timer, events, errors, no disconnect).
C22_ReceiveGating ==
    [][\A p \in Peers :
          (/\ Receives(p)
           /\ Head(wire.inbox[p]).code # STATUS
           /\ ~AllowedFor(eth[p].version, Head(wire.inbox[p]).code)) =>
              /\ eth' = eth
              /\ lastOp' = "handleMessage:dropped"]_vars

\* An established eth/62 session has dropped a message and is still
\* established, its peer connected.
C22_Witness ==
    \E p \in Peers :
        /\ eth[p].version = ETH62
        /\ Established(eth[p])
        /\ ~Closed(eth[p])
        /\ lastOp = "handleMessage:dropped"

ForkIdErrors ==
    {"Unknown fork hash",
     "Outdated fork status, remote needs software update",
     "Remote is advertising a future fork that passed locally"}

\* The hardfork whose fork hash a remote advertises is known locally.
KnownForkHash(s, hash) ==
    \E h \in 1..Len(Hardforks) : ForkHash(s.genesisHash, h) = hash

ForkOfHash(s, hash) ==
    CHOOSE h \in 1..Len(Hardforks) : ForkHash(s.genesisHash, h) = hash

\* What the rules of EIP-2124 decide for the fork id a session received:
\* the one failure, or none.
ForkIdDecision(s) ==
    LET peerForkHash == s.peerStatus.forkId[1]
        peerNextFork == s.peerStatus.forkId[2]
    IN  IF /\ peerForkHash = s.forkHash
           /\ peerNextFork # 0
           /\ s.latestBlock >= peerNextFork
        THEN {"Remote is advertising a future fork that passed locally"}
        ELSE IF ~KnownForkHash(s, peerForkHash)
        THEN {"Unknown fork hash"}
        ELSE IF /\ ForkOfHash(s, peerForkHash) < s.hardfork
                /\ \/ ForkOfHash(s, peerForkHash) = Len(Hardforks)
                   \/ HardforkBlock(ForkOfHash(s, peerForkHash) + 1)
                          # peerNextFork
        THEN {"Outdated fork status, remote needs software update"}
        ELSE {}

\* C23: the fork id of the remote is validated as EIP-2124 has it: a future
\* fork that passed locally, else an unknown fork hash, else an outdated
\* fork status, else accepted; the handshake fails with the failure of the
\* first condition that holds and with no other, and succeeds when none
\* holds.
C23_ForkIdValidation ==
    \A p \in Peers :
        (/\ Exchanged(eth[p])
         /\ eth[p].version >= ETH64
         /\ FirstMismatch(eth[p]) = "none"
         /\ Len(eth[p].peerStatus.forkId) = 2) =>
            /\ eth[p].errors \cap ForkIdErrors = ForkIdDecision(eth[p])
            /\ Established(eth[p]) <=> ForkIdDecision(eth[p]) = {}

\* A session on a later hardfork than the one the remote advertises, with a
\* next fork that is not the recorded one, has failed as outdated.
C23_Witness ==
    \E p \in Peers :
        /\ Exchanged(eth[p])
        /\ eth[p].peerStatus.forkId # <<>>
        /\ eth[p].peerStatus.forkId[1] # eth[p].forkHash
        /\ KnownForkHash(eth[p], eth[p].peerStatus.forkId[1])
        /\ eth[p].errors =
               {"Outdated fork status, remote needs software update"}

\* A reqId on the wire fits in 64 bits: 8 bytes at most.
Fits64(bytes) == Len(bytes) <= 8

\* C24: the request ids the protocol assigns fit in 64 bits after any
\* number of requests: the id that follows 2^64 - 1 is 0, so the encoded
\* reqId of every request that left its reqId to the protocol is within
\* [0, 2^64 - 1].
C24_ReqIdFits64 ==
    /\ \A k \in 1..Len(outstanding) :
           outstanding[k].auto => Fits64(outstanding[k].reqId)
    /\ Len(id) <= 4

\* The reqIds of the outstanding requests that left them to the protocol.
AutoReqIds ==
    {outstanding[k].reqId : k \in {j \in 1..Len(outstanding) :
                                      outstanding[j].auto}}

\* C25: no two outstanding requests that left their reqId to the protocol
\* carry the same reqId, whichever of GetBlockHeaders, GetBlockBodies and
\* GetPooledTransactions they are: each such request gets an id that no
\* such request in flight has; and a request with a reqId of the caller
\* carries that reqId and leaves the counter as it was.
C25_DistinctReqIds ==
    /\ [](\A j, k \in 1..Len(outstanding) :
             (j # k /\ outstanding[j].auto /\ outstanding[k].auto) =>
                 outstanding[j].reqId # outstanding[k].reqId)
    /\ [][\A code \in RequestCodes :
             /\ Request(code, Opts(FALSE, BNZero)) =>
                    /\ outstanding'[Len(outstanding')].reqId \notin AutoReqIds
                    /\ id' # id
             /\ \A r \in ReqIds :
                    Request(code, Opts(TRUE, r)) =>
                        /\ NewBN(outstanding'[Len(outstanding')].reqId) = r
                        /\ id' = id]_vars

\* Two requests of different messages are outstanding, both with a reqId of
\* the protocol.
C25_Witness ==
    /\ Len(outstanding) = 2
    /\ outstanding[1].auto /\ outstanding[2].auto
    /\ outstanding[1].code = GET_BLOCK_HEADERS
    /\ outstanding[2].code = GET_POOLED_TRANSACTIONS

\* C26: the reqId is echoed verbatim: for every reqId r of 64 bits, encoding
\* a response (BlockHeaders, BlockBodies, PooledTransactions) with r succeeds
\* and decoding it returns r; and decoding an encoded request returns the
\* reqId it was encoded with.
C26_ReqIdEcho ==
    (lastMsg.op \in {"request", "response"} /\ Len(lastMsg.reqId) <= 4) =>
        /\ lastMsg.payload # Throws
        /\ lastMsg.decodedReqId = lastMsg.reqId

\* The same for the requests, for BlockHeaders and BlockBodies, and for
\* PooledTransactions with a reqId under 2^53.
C26_BesidesUnsafePooledTransactions ==
    (/\ lastMsg.op \in {"request", "response"}
     /\ Len(lastMsg.reqId) <= 4
     /\ lastMsg.code = POOLED_TRANSACTIONS => SafeNumber(lastMsg.reqId)) =>
        /\ lastMsg.payload # Throws
        /\ lastMsg.decodedReqId = lastMsg.reqId

\* C27: for every list of transactions, legacy and typed and of any length,
\* decoding what encode produced gives the same transactions, as many and in
\* the same order, for the Transactions message and for the transactions of
\* PooledTransactions.
C27_TransactionsRoundTrip ==
    /\ lastMsg.op = "message" => lastMsg.decodedTxs = Lst(lastMsg.txs)
    /\ (/\ lastMsg.op = "response"
        /\ lastMsg.code = POOLED_TRANSACTIONS
        /\ lastMsg.payload # Throws) => lastMsg.decodedTxs = Lst(lastMsg.txs)

\* The part of C27 that is about PooledTransactions.
C27_PooledTransactionsRoundTrip ==
    (/\ lastMsg.op = "response"
     /\ lastMsg.code = POOLED_TRANSACTIONS
     /\ lastMsg.payload # Throws) => lastMsg.decodedTxs = Lst(lastMsg.txs)

\* A PooledTransactions response of a legacy and a typed transaction came
\* back as sent.
C27_PooledTransactionsWitness ==
    /\ lastMsg.op = "response"
    /\ lastMsg.code = POOLED_TRANSACTIONS
    /\ Len(lastMsg.txs) = 2
    /\ lastMsg.txs[1].type = 0 /\ lastMsg.txs[2].type = 2
    /\ lastMsg.decodedTxs = Lst(lastMsg.txs)

\* C28: a message other than STATUS is emitted as a `message` event only
\* in an established session: one that arrives before the handshake is
\* through, or after the validation failed, is not dispatched.
C28_DispatchWhenEstablished ==
    [][\A p \in Peers :
          (/\ Receives(p)
           /\ Head(wire.inbox[p]).code # STATUS
           /\ eth'[p].messageEvents > eth[p].messageEvents) =>
              Established(eth[p])]_vars

\* C29: the CHAIN_UPDATED listener of an assembly is one-shot: when the
\* assembly has ended, completed, interrupted or aborted, its listener is
\* registered no more, so the miner holds one setInterrupt listener per
\* assembly in flight at most and, with the subscription of start(), one
\* listener more than there are assemblies in flight.
C29_ListenersOneShot ==
    /\ setInterruptListeners <= Cardinality(InFlight)
    /\ chainUpdatedListeners + setInterruptListeners
           <= 1 + Cardinality(InFlight)

\* C30: an assembly that was not interrupted completes in this order: the
\* block is sealed by build(), then submitted to the chain, and only when
\* the submission has returned is the pool asked to remove the transactions
\* of that block and no others; an assembly that ends interrupted, aborted
\* or with a failed submission leaves the pool as it is.
C30_CompletionOrder ==
    [][/\ putBlocks' # putBlocks =>
              \E i \in Slots :
                  /\ inv[i].pc = "submit"
                  /\ putBlocks' = Append(putBlocks, BlockOf(inv[i]))
                  /\ pool' = pool
       /\ pool' # pool =>
              \E i \in Slots :
                  /\ inv[i].pc = "submitted" /\ inv'[i].pc = "idle"
                  /\ \E k \in 1..Len(putBlocks) :
                         /\ putBlocks[k].transactions = inv[i].body
                         /\ putBlocks[k].number = inv[i].number
                  /\ pool' = pool \ SeqToSet(inv[i].body)
       /\ \A i \in Slots :
              /\ (inv[i].pc = "build" /\ inv'[i].pc = "submit") =>
                     ~inv[i].interrupt
              /\ (inv[i].pc \in PreSubmit \cup {"submit"}
                  /\ inv'[i].pc = "idle") => pool' = pool]_vars

\* An assembly has completed: its block is with the chain and a transaction
\* of it is gone from the pool.
C30_Witness ==
    /\ lastOp = "assembleBlock:done"
    /\ putBlocks # <<>>
    /\ \E k \in 1..Len(putBlocks) :
           /\ putBlocks[k].transactions # <<>>
           /\ SeqToSet(putBlocks[k].transactions) \cap pool = {}

\* C31: on a proof-of-authority chain the delay queueNextAssembly arms is
\* the base timeout when the signer is in turn and lies in
\* [base, base + signerCount * 500 ms) when it is out of turn; on any other
\* chain the delay armed is the base timeout: the period for start(), the
\* timeout chainUpdated() computed for a chain update.
C31_Jitter ==
    [][/\ \A timeout \in BagToSet(sched.awaiting) : \A inTurn \in BOOLEAN :
              \A signerCount \in 1..MaxSigners : \A r \in 0..(RandDenom - 1) :
                  QueueResume(timeout, inTurn, signerCount, r) =>
                      /\ config.poa
                      /\ inTurn => sched'.pending = timeout
                      /\ ~inTurn =>
                             /\ sched'.pending >= timeout
                             /\ sched'.pending < timeout + signerCount * JITTER_MS
       /\ (~config.poa /\ ~StartRefused /\ Start) => sched'.pending = period
       /\ (~config.poa /\ chainUpdatedListeners > 0 /\ lastOp' = "chainUpdate") =>
              sched'.pending = ChainUpdatedTimeout(head')]_vars

\* An out-of-turn signer among two has armed its timer later than the
\* period, the longest base timeout there is.
C31_Witness ==
    /\ config.poa
    /\ lastOp = "queueNextAssembly:outOfTurn"
    /\ sched.pending > period
    /\ sched.pending < period + MaxSigners * JITTER_MS

\* Off proof of authority a chain update has armed the timer with the
\* timeout of chainUpdated() alone.
C31_WitnessNoJitter ==
    /\ ~config.poa
    /\ lastOp = "chainUpdate"
    /\ sched.pending = ChainUpdatedTimeout(head)

\* The assemblies whose header data has been handed to buildBlock.
HeaderBuilt ==
    {i \in Slots : inv[i].pc \in {"buildBlock", "txs", "loop", "build",
                                  "submit", "submitted"}}

\* C32: on a proof-of-authority chain the header the miner assembles has
\* difficulty 2 when cliqueSignerInTurn answered that the signer is in turn
\* and 1 when it answered that it is not; the header of an assembly and of a
\* block handed to the chain never has another difficulty there.
C32_Difficulty ==
    /\ [](config.poa =>
              /\ \A i \in HeaderBuilt : inv[i].difficulty \in {1, 2}
              /\ \A k \in 1..Len(putBlocks) : putBlocks[k].difficulty \in {1, 2})
    /\ [][\A i \in Slots : \A inTurn \in BOOLEAN :
              CliqueSignerInTurn(i, inTurn) =>
                  /\ config.poa
                  /\ inv'[i].difficulty = IF inTurn THEN 2 ELSE 1]_vars

\* A proof-of-authority miner has handed the chain a block it signed in
\* turn and one it signed out of turn.
C32_Witness ==
    /\ config.poa
    /\ \E j \in 1..Len(putBlocks) : putBlocks[j].difficulty = 2
    /\ \E k \in 1..Len(putBlocks) : putBlocks[k].difficulty = 1

\* The message the step has put on the way to p, when p's remote sent one.
Sent(p) ==
    /\ Len(wire'.inbox[p]) > Len(wire.inbox[p])
    /\ lastOp' \in {"sendStatus:sent", "sendStatus:error", "sendMessage:sent"}

\* C33: a payload handed to the transport is snappy-compressed if and only
\* if the HELLO of the remote declared a protocolVersion of 5 or more, for
\* the STATUS of sendStatus and for every message of sendMessage alike.
C33_Snappy ==
    [][\A p \in Peers :
          Sent(Remote(p)) =>
              LET m == wire'.inbox[Remote(p)][Len(wire'.inbox[Remote(p)])]
              IN  m.snappy <=> (eth[p].hello \in HelloVersions \ {Undefined}
                                /\ eth[p].hello >= 5)]_vars

\* A session whose remote declared version 5 has a compressed STATUS and a
\* compressed message on the way, and the remote, told version 4, has sent
\* its STATUS uncompressed.
C33_Witness ==
    \E p \in Peers :
        /\ eth[p].hello = 5 /\ eth[Remote(p)].hello = 4
        /\ eth[Remote(p)].sent > 0 /\ eth[Remote(p)].peerStatus = NoStatus
        /\ Len(wire.inbox[Remote(p)]) = 2
        /\ wire.inbox[Remote(p)][1].code = STATUS
        /\ wire.inbox[Remote(p)][1].snappy
        /\ wire.inbox[Remote(p)][2].code # STATUS
        /\ wire.inbox[Remote(p)][2].snappy
        /\ wire.inbox[p] # <<>>
        /\ ~wire.inbox[p][1].snappy

\* The errors of the fork id checks of lines 276-284.
ForkIdCheckErrors ==
    {"Unknown fork hash",
     "Outdated fork status, remote needs software update",
     "Remote is advertising a future fork that passed locally",
     "Incorrect forkId msg format", "TypeError"}

\* C34: the `status` event of a handshake carries the network id, total
\* difficulty, best hash and genesis hash of the remote as they were
\* received, and its fork id when the version is 64 or more; below version
\* 64 the event has no fork id and no fork id check is made.
C34_StatusEvent ==
    /\ [](\A p \in Peers : \A k \in 1..Len(eth[p].statusEvents) :
              LET e == eth[p].statusEvents[k]
                  r == eth[p].peerStatus
              IN  /\ e.networkId = r.networkId
                  /\ e.td = r.td
                  /\ e.bestHash = r.bestHash
                  /\ e.genesisHash = r.genesisHash
                  /\ e.forkId = IF eth[p].version >= 64 THEN r.forkId ELSE <<>>)
    /\ [](\A p \in Peers :
              eth[p].version < 64 => eth[p].errors \cap ForkIdCheckErrors = {})
    /\ [][\A p \in Peers :
              (Receives(p) /\ Head(wire.inbox[p]).code = STATUS
               /\ eth[p].peerStatus = NoStatus) =>
                  eth'[p].peerStatus = Head(wire.inbox[p]).payload]_vars

\* An eth/64 session has emitted `status` with the total difficulty and best
\* hash of its remote, which are not its own, and with the fork id of its
\* remote.
C34_Witness ==
    \E p \in Peers :
        /\ Len(eth[p].statusEvents) = 1
        /\ eth[p].statusEvents[1].td = eth[Remote(p)].td
        /\ eth[p].statusEvents[1].td # eth[p].td
        /\ eth[p].statusEvents[1].bestHash = eth[Remote(p)].bestHash
        /\ eth[p].version >= 64
        /\ eth[p].statusEvents[1].forkId =
               <<eth[Remote(p)].forkHash, eth[Remote(p)].nextForkBlock>>

\* An eth/63 session has emitted `status` without a fork id.
C34_WitnessBelow64 ==
    \E p \in Peers :
        /\ eth[p].version < 64
        /\ Len(eth[p].statusEvents) = 1
        /\ eth[p].statusEvents[1].td = eth[Remote(p)].td
        /\ eth[p].statusEvents[1].forkId = <<>>

\* C35: whenever no assembleBlock invocation is in flight, assembling is
\* false: however an assembly ends, by submission, interruption, the
\* recently-signed abort or an exception of the VM copy, buildBlock,
\* txsByPriceAndNonce, build() or the submission, the flag is reset, so no
\* later assembleBlock is turned into a no-op by a flag left set.
C35_IdleNotAssembling == InFlight = {} => ~assembling

\* C36: at most one assembly timer is pending at any time, for every
\* interleaving of the queueNextAssembly calls of start() and of the
\* CHAIN_UPDATED events: a call that arms a timer leaves no earlier timer
\* armed.
C36_OneTimerPending == PendingTimers(sched) <= 1

\* The part of C36 that is about chains other than proof of authority,
\* where queueNextAssembly awaits nothing.
C36_OffProofOfAuthority == ~config.poa => PendingTimers(sched) <= 1

\* C37: a session emits `status` only when its own STATUS was handed to the
\* transport; a sendStatus call that fails on the latest block leaves the
\* local status unset, so that it can be called again, and a remote STATUS
\* that arrives afterwards does not complete the handshake.
C37_StatusOnlyAfterSend ==
    \A p \in Peers :
        /\ Established(eth[p]) => eth[p].sent > 0
        /\ eth[p].status # NoStatus => eth[p].sent > 0

\* The part of C37 that is about the `status` event alone.
C37_EstablishedOnlyAfterSend ==
    \A p \in Peers : Established(eth[p]) => eth[p].sent > 0

\* The session as it was before its sendStatus call went through, and the
\* latest block that call was handed.
BeforeSendStatus(s) ==
    [s EXCEPT !.status = NoStatus, !.sent = 0,
              !.latestBlock = IF s.version >= ETH64
                              THEN HardforkBlock(s.hardfork) ELSE 0]

\* The session had the remote STATUS been received first and sendStatus
\* been called afterwards, by a caller that disconnects on an error or not.
ReceivedFirst(s, payload, callerDisconnects) ==
    AfterSendStatus(HandleMessageStatus(BeforeSendStatus(s), payload),
                    s.latestBlock, callerDisconnects)

\* p has sent its STATUS and receives the remote one now.
CompletesBySending(p) ==
    /\ Receives(p)
    /\ Head(wire.inbox[p]).code = STATUS
    /\ eth[p].sent > 0 /\ eth[p].peerStatus = NoStatus

\* C38: the outcome of the handshake does not depend on the order of
\* sendStatus and the arrival of the remote STATUS: for the same local
\* status and the same remote STATUS the session ends in the same state,
\* established with the same `status` event or failed for the same reason.
C38_OrderIndependent ==
    [][\A p \in Peers :
          CompletesBySending(p) =>
              \E callerDisconnects \in BOOLEAN :
                  eth'[p] = ReceivedFirst(eth[p], Head(wire.inbox[p]).payload,
                                          callerDisconnects)]_vars

\* The part of C38 that is about the result: the same `status` event or the
\* same error in both orders, and the same session state when the handshake
\* succeeds.
C38_SameResult ==
    [][\A p \in Peers :
          CompletesBySending(p) =>
              LET other == ReceivedFirst(eth[p], Head(wire.inbox[p]).payload,
                                         TRUE)
              IN  /\ eth'[p].statusEvents = other.statusEvents
                  /\ eth'[p].errors = other.errors
                  /\ eth'[p].disconnects = other.disconnects
                  /\ eth'[p].latestBlock = other.latestBlock
                  /\ eth'[p].errors = {} => eth'[p] = other]_vars

RECURSIVE IsSubsequence(_, _)
\* b is l with some of its elements left out.
IsSubsequence(b, l) ==
    IF b = <<>> THEN TRUE
    ELSE IF l = <<>> THEN FALSE
    ELSE IF Head(b) = Head(l) THEN IsSubsequence(Tail(b), Tail(l))
    ELSE IsSubsequence(b, Tail(l))

\* addTransaction takes tx into the block of workspace v.
C39_Succeeds(v, tx) ==
    /\ tx.gasLimit <= v.gasLimit - v.gasUsed
    /\ Executes(v, tx)

\* C39: the transactions of a block are an order-preserving subsequence of
\* the eligible list of its assembly: every turn of the loop attempts the
\* next transaction of the list, once, while the block is not full, and the
\* block holds those whose addTransaction succeeded; the block handed to
\* the chain holds these transactions.
C39_OrderedSubsequence ==
    /\ [](\A i \in Slots :
              inv[i].pc \in {"loop", "build", "submit", "submitted"} =>
                  /\ inv[i].index <= Len(inv[i].txs)
                  /\ IsSubsequence(inv[i].body,
                                   SubSeq(inv[i].txs, 1, inv[i].index)))
    /\ [][\A i \in Slots :
              /\ (AddTransaction(i) /\ inv'[i].pc # "idle") =>
                     LET tx == inv[i].txs[inv[i].index + 1]
                     IN  /\ ~inv[i].blockFull
                         /\ inv'[i].txs = inv[i].txs
                         /\ inv'[i].index = inv[i].index + 1
                         /\ inv'[i].body = IF C39_Succeeds(inv[i], tx)
                                           THEN Append(inv[i].body, tx)
                                           ELSE inv[i].body
              /\ (inv[i].pc = "submit" /\ inv'[i].pc = "submitted") =>
                     /\ putBlocks' # putBlocks
                     /\ putBlocks'[Len(putBlocks')].transactions = inv[i].body
                     /\ IsSubsequence(inv[i].body, inv[i].txs)
              /\ (inv[i].pc \in {"build", "submit", "submitted"}
                  /\ inv'[i].pc # "idle") =>
                     /\ inv'[i].body = inv[i].body
                     /\ inv'[i].txs = inv[i].txs]_vars

\* A block has been handed to the chain whose assembly tried every eligible
\* transaction, left one out and took one that comes later in the list.
C39_Witness ==
    \E i \in Slots :
        /\ inv[i].pc = "submitted"
        /\ inv[i].index = Len(inv[i].txs)
        /\ \E j \in 1..Len(inv[i].txs) : \E k \in 1..Len(inv[i].txs) :
               /\ j < k
               /\ inv[i].txs[j] \notin SeqToSet(inv[i].body)
               /\ inv[i].txs[k] \in SeqToSet(inv[i].body)
        /\ putBlocks # <<>>
        /\ putBlocks[Len(putBlocks)].transactions = inv[i].body

\* C40: while the miner is running, a CHAIN_UPDATED event is eventually
\* followed by an invocation of assembleBlock, unless stop() comes first:
\* the timer the event arms fires.  The chain advancing a bounded number of
\* times, a further CHAIN_UPDATED that reschedules the timer is followed by
\* an invocation in its turn.
C40_Liveness ==
    (running /\ chainUpdatedListeners > 0 /\ lastOp \in EmitOps)
        ~> (lastOp \in AssembleOps \/ ~running)

\* Off proof of authority, the chain having advanced, the timer of the
\* chain update, the only one there is, has fired and an assembly begun.
C40_Witness ==
    /\ ~config.poa
    /\ running
    /\ head.number >= 1
    /\ PendingTimers(sched) = 0
    /\ lastOp = "assembleBlock:begin"

\* The case of a block of the miner's own: its submission emitted
\* CHAIN_UPDATED, and the timer of that event has fired.
C40_WitnessAfterSubmission ==
    /\ running
    /\ putBlocks # <<>>
    /\ head.number >= 1
    /\ lastOp = "assembleBlock:begin"
====
